---- MODULE Spec2Model ----
(***************************************************************************)
(* Shared-memory typed key-value store (shm_kv_c_api.cpp, shm_kv.cpp).     *)
(*                                                                         *)
(* The segment (header atomics, bucket table, node array, payload arena)   *)
(* is shared by writer processes, which run the insert skeleton one        *)
(* statement at a time under the process-shared writer mutex, and reader   *)
(* processes, which run the lock-free lookups one load at a time.          *)
(***************************************************************************)
EXTENDS Integers, Naturals, Sequences, FiniteSets, TLC

(***************************************************************************)
(* Bounds of the model.                                                    *)
(***************************************************************************)
MaxInserts == 3          \* insert calls made in one behaviour
MaxLookups == 1          \* lookup calls made in one behaviour
MaxCrashes == 1          \* writer deaths in one behaviour of SpecCrash
MaxCrashInserts == 2     \* insert calls made in one behaviour of SpecCrash
MaxOpens == 1            \* shm_create calls on the existing name in one behaviour of SpecOpen
MaxOpenInserts == 1      \* insert calls made in one behaviour of SpecOpen
MaxSetLen == 3           \* elements passed to shm_insert_int_set
MaxPairs == 2            \* pairs passed to a dictionary insert
MaxFields == 3           \* fields passed to shm_insert_object
MaxObjectInserts == 1    \* shm_insert_object calls in one behaviour of SpecEnc
MaxAdds == 2             \* shm_add_authorized_pid calls in one behaviour of SpecAuth
MaxAuthInserts == 1      \* shm_insert_encrypted calls by an owner in one behaviour of SpecAuth
MaxAuthLookups == 1      \* shm_lookup_decrypted calls in one behaviour of SpecAuth
MaxHandles == 2          \* handles on the segment one process holds at a time
MaxSignals == 2          \* signals delivered in one behaviour of SpecOs
MaxOsOpens == 2          \* shm_create calls made in one behaviour of SpecOs
MaxOsInserts == 1        \* insert calls made in one behaviour of SpecOs
MaxChainInserts == 3     \* insert calls made in one behaviour of SpecChains
MaxAllocs == 3           \* alloc_payload calls made in one behaviour of SpecAlloc
MaxLiveInserts == 3      \* insert calls made in one behaviour of SpecLive
MaxReinitInserts == 2    \* insert calls made in one behaviour of SpecReinit
MaxReadInserts == 1      \* insert calls made in one behaviour of SpecRead
MaxCreates == 3          \* shm_create calls made in one behaviour of SpecCreate
MaxCreateInserts == 1    \* insert calls made in one behaviour of SpecCreate

(***************************************************************************)
(* Program constants.                                                      *)
(***************************************************************************)
\* 0xFFFFFFFF as a uint32_t; written as the same bit pattern read as int32,
\* because the model checker's integers are 32 bits wide.
EMPTY_INDEX == -1
\* UINT64_MAX, the failure value of alloc_payload (kept outside every offset).
ALLOC_FAIL == -2
MAX_VAL_LEN == 268435456
MAX_CAS_RETRIES == 10000
PAGE == 4096
MAGIC == 1280131666          \* 0x4C4D4252
\* align_up(sizeof(Header), 64) and sizeof(Node) of the Linux x86-64 build
HEADER_SIZE == 320
NODE_SIZE == 40

SHM_OK == 0
SHM_ERR_NOT_FOUND == 1
SHM_ERR_NO_SPACE == 2
SHM_ERR_CONCURRENT_MOD == 3
SHM_ERR_INVALID_PARAM == 4
SHM_ERR_OPEN_FAILED == 5
SHM_ERR_PERMISSION_DENIED == 6
SHM_ERR_TYPE_MISMATCH == 7

SHM_TYPE_UNKNOWN == 0
SHM_TYPE_INT_SCALAR == 1
SHM_TYPE_STRING == 3
SHM_TYPE_OBJECT == 18

\* Arguments of the shm_create call that initialised the segment.
ReqBuckets == 2
ReqNodes == 2
ReqPayload == 4000

Writers == {"w1", "w2"}
Readers == {"r1"}

\* The operating-system processes: each is one of the writers or readers.
Procs == Writers \cup Readers
\* getpid() in each process
getpid(p) == IF p = "w1" THEN 101 ELSE IF p = "w2" THEN 102 ELSE 103
\* the user ids processes run under; the creator runs under OWNER_UID
OWNER_UID == 1000
OTHER_UID == 2000
\* auth_pids[32]
MAX_AUTH_PIDS == 32

(***************************************************************************)
(* Byte strings.  The keys and values used as inputs are runs of `len`     *)
(* bytes that all equal `fill` (fill > 0), so that a value large enough to *)
(* fill the payload arena stays small in the state.  The empty string has  *)
(* fill 0.                                                                 *)
(***************************************************************************)
Run(n, b) == [len |-> n, fill |-> IF n = 0 THEN 0 ELSE b]
NoBytes == Run(0, 0)

KeyA == Run(1, 97)       \* "a"
KeyB == Run(1, 98)       \* "b"
KeyC == Run(1, 99)       \* "c"

\* The insert calls made: shm_insert(key, value, value_len), which stores any
\* bytes under tag UNKNOWN, and shm_insert_int_scalar(key, int64), which stores
\* 8 bytes under tag INT_SCALAR.  "a" and "c" share a bucket, "b" has its own;
\* the 4080-byte value leaves room for one more key but not for its value;
\* the last call passes a value of length 0.
InsertCalls ==
    { [key |-> KeyA, tag |-> SHM_TYPE_UNKNOWN, val |-> Run(8, 1)],
      [key |-> KeyA, tag |-> SHM_TYPE_INT_SCALAR, val |-> Run(8, 2)],
      [key |-> KeyC, tag |-> SHM_TYPE_UNKNOWN, val |-> Run(8, 3)],
      [key |-> KeyB, tag |-> SHM_TYPE_UNKNOWN, val |-> Run(4080, 4)],
      [key |-> KeyA, tag |-> SHM_TYPE_UNKNOWN, val |-> NoBytes] }

\* The lookup calls made: shm_lookup, shm_lookup_int_scalar, shm_get_value_type.
LookupCalls ==
    { [kind |-> "lookup", key |-> KeyA],
      [kind |-> "int_scalar", key |-> KeyA],
      [kind |-> "get_type", key |-> KeyA],
      [kind |-> "lookup", key |-> KeyC],
      [kind |-> "int_scalar", key |-> KeyB] }

(***************************************************************************)
(* Pure helpers.                                                           *)
(***************************************************************************)
\* align_up(x, a) == (x + a - 1) & ~(a - 1), a a power of two
align_up(x, a) == ((x + a - 1) \div a) * a

RECURSIVE BitXor(_, _)
BitXor(a, b) ==
    IF a = 0 THEN b
    ELSE IF b = 0 THEN a
    ELSE (((a % 2) + (b % 2)) % 2) + 2 * BitXor(a \div 2, b \div 2)

\* FNV-1a.  The code computes it in 64 bits and reduces it modulo n_buckets;
\* the low 12 bits of every intermediate value depend only on the low 12
\* bits of the operands, so they are computed here exactly, and they decide
\* hash % n_buckets for every power-of-two n_buckets up to 4096.
HashMod == 4096
FNV_OFFSET_LOW == 899        \* 1469598103934665603 mod 4096
FNV_PRIME_LOW == 435         \* 1099511628211 mod 4096

RECURSIVE HashFrom(_, _, _)
HashFrom(h, data, i) ==
    IF i >= data.len THEN h
    ELSE HashFrom((BitXor(h, data.fill % HashMod) * FNV_PRIME_LOW) % HashMod, data, i + 1)

simple_hash(data) == HashFrom(FNV_OFFSET_LOW, data, 0)

\* shm_create: the sizes of the four areas computed from the caller's geometry
requested_total_size(req_buckets, req_nodes, req_payload) ==
    HEADER_SIZE + align_up(4 * req_buckets, 64) + align_up(NODE_SIZE * req_nodes, 64)
        + align_up(req_payload, PAGE)

\* shm_create: the header fields written when the segment is initialised
NewHeader(req_buckets, req_nodes, map_total_size) ==
    [magic |-> MAGIC, version |-> 1, total_size |-> map_total_size,
     bucket_area_off |-> HEADER_SIZE,
     node_area_off |-> HEADER_SIZE + align_up(4 * req_buckets, 64),
     payload_area_off |-> HEADER_SIZE + align_up(4 * req_buckets, 64)
                              + align_up(NODE_SIZE * req_nodes, 64),
     n_buckets |-> req_buckets, n_nodes |-> req_nodes]

ZeroNode ==
    [key_off |-> 0, key_len |-> 0, val_off |-> 0, val_len |-> 0,
     next_index |-> 0, flags |-> 0, version |-> 0, value_type |-> 0]

VARIABLES
    generation,             \* hdr->generation
    next_free_node_index,   \* hdr->next_free_node_index
    payload_alloc_off,      \* hdr->payload_alloc_off
    writer_mutex,           \* hdr->writer_mutex: "free", "dead" (owner died) or the holder
    buckets,                \* bucket table: bucket -> head node index or EMPTY_INDEX
    nodes,                  \* node array: index -> Node
    payload,                \* payload arena: start offset of a memcpy -> bytes copied there
    wpc, wl,                \* writers: program counter and locals of the insert in progress
    rpc, rl,                \* readers: program counter and locals of the lookup in progress
    hist,                   \* history: <<key, value>> pairs copied in, <<key, tag>> of inserts that returned OK
    lastOK,                 \* cursors and bucket heads when the last successful insert returned
    budget,                 \* calls still allowed: inserts, lookups, crashes, opens
    hdr,                    \* header fields fixed by shm_create: magic, version, sizes, offsets
    st_size,                \* size of the shared-memory object (fstat)
    enc,                    \* a set or dictionary insert and the lookup that decodes it
    owner_uid,              \* hdr->owner_uid
    auth_pid_count,         \* hdr->auth_pid_count
    auth_pids,              \* hdr->auth_pids: index -> pid (0: never stored to)
    uid,                    \* getuid() in each process
    spc, sl,                \* processes: program counter and locals of the permission call in progress
    authorized,             \* history: the pids an owner has asked to authorize (asked) and whose
                            \* shm_add_authorized_pid has returned OK (added), and the creator's
    os                      \* outside the segment: the names in the shared-memory namespace,
                            \* each process's open handles, SHM_AUTO_CLEANUP and cleanup statics

vars == <<generation, next_free_node_index, payload_alloc_off, writer_mutex, buckets,
          nodes, payload, wpc, wl, rpc, rl, hist, lastOK, budget, hdr, st_size, enc,
          owner_uid, auth_pid_count, auth_pids, uid, spc, sl, authorized, os>>

\* the security fields of the header and the permission calls
sec == <<owner_uid, auth_pid_count, auth_pids, uid, spc, sl, authorized>>

\* what the inserts and lookups of the key-value skeleton leave alone
aux == <<hdr, st_size, os, enc, sec>>

segment == <<generation, next_free_node_index, payload_alloc_off, writer_mutex, buckets,
             nodes, payload>>

\* Geometry read from the header.
n_buckets == hdr.n_buckets
n_nodes == hdr.n_nodes
payload_capacity == hdr.total_size - hdr.payload_area_off

BucketOf(key) == simple_hash(key) % n_buckets

(***************************************************************************)
(* Payload arena.  memcpy(payloadBase + off, src, len) records the bytes   *)
(* at their start offset; every byte never copied to is the zero left by   *)
(* memset in shm_create.                                                   *)
(***************************************************************************)
MemcpyTo(mem, off, bytes) == [o \in DOMAIN mem \cup {off} |-> IF o = off THEN bytes ELSE mem[o]]

\* the len bytes found at payloadBase + off
ReadBytes(mem, off, len) ==
    IF off \in DOMAIN mem /\ mem[off].len >= len THEN Run(len, mem[off].fill)
    ELSE Run(len, 0)

\* the node read through nodes[idx]
NodeAt(idx) == IF idx \in DOMAIN nodes THEN nodes[idx] ELSE ZeroNode

(***************************************************************************)
(* Initial state: the segment as shm_create leaves it (cpp:306-342), every *)
(* process outside any call.                                               *)
(***************************************************************************)
IdleW == [key |-> NoBytes, val |-> NoBytes, tag |-> 0, key_off |-> 0, val_off |-> 0,
          cur |-> 0, node_idx |-> 0, old_head |-> 0, retries |-> 0, gen0 |-> 0,
          nfi0 |-> 0, pay0 |-> 0, okBefore |-> 0, err |-> SHM_OK, died_at |-> ""]

IdleR == [kind |-> "none", key |-> NoBytes, g1 |-> 0, idx |-> 0, out |-> NoBytes,
          out_type |-> 0, err |-> SHM_OK, g2 |-> 0, sampled |-> FALSE, seenBump |-> FALSE,
          seenMod |-> FALSE, seenCas |-> FALSE, okAtStart |-> FALSE, out_value_len |-> 0]

\* no set or dictionary call made yet
NoValue == [count |-> 0, key_offsets |-> <<>>, keys_data |-> <<>>, values |-> <<>>]

EncIdle == [pc |-> "idle", op |-> "none", input |-> <<>>, node |-> FALSE,
            stored |-> NoValue, out |-> <<>>, err |-> SHM_OK]

\* no permission call in progress
NoStats == [n_buckets |-> 0, n_nodes |-> 0, nodes_used |-> 0, payload_capacity |-> 0,
            payload_used |-> 0, generation |-> 0]

IdleS == [op |-> "none", pid |-> 0, auth_count |-> 0, out |-> 0, stats |-> NoStats,
          err |-> SHM_OK]

\* the security fields as shm_create leaves them, for a list that the owner
\* has since extended to count entries, and the processes' user ids
InitSec(count, uids) ==
    /\ owner_uid = OWNER_UID
    /\ auth_pid_count = count
    /\ auth_pids = [i \in 0..(MAX_AUTH_PIDS - 1) |->
                       IF i = 0 THEN getpid("w1") ELSE IF i < count THEN 200 + i ELSE 0]
    /\ uid = uids
    /\ spc = [p \in Procs |-> "idle"]
    /\ sl = [p \in Procs |-> IdleS]
    /\ authorized = [asked |-> { auth_pids[i] : i \in 0..(count - 1) },
                     added |-> { auth_pids[i] : i \in 0..(count - 1) }]

\* the name of the segment the model carries, and another name
SegName == "A"
OtherName == "B"

\* the cleanup statics of a process that has not called shm_create:
\* g_shm_name_to_cleanup (name), g_auto_cleanup_enabled, g_cleanup_registered,
\* where the process is (pos), and history: the name of its first shm_create,
\* the times the handlers were installed and shm_unlink was called by the cleanup
NoCleanup ==
    [pos |-> "run", name |-> "", enabled |-> FALSE, registered |-> FALSE,
     first |-> "", installs |-> 0, unlinks |-> 0]

\* register_cleanup(name) at the end of shm_create; env: SHM_AUTO_CLEANUP is "1"
register_cleanup(c, name, env) ==
    LET called == [c EXCEPT !.first = IF @ = "" THEN name ELSE @]
    IN  IF ~env \/ c.registered
        THEN called
        ELSE [called EXCEPT !.name = name, !.enabled = TRUE, !.installs = @ + 1,
                            !.registered = TRUE]

\* every process has opened the segment once, without SHM_AUTO_CLEANUP
OsOpened ==
    [names |-> {SegName},
     handles |-> [p \in Procs |-> 1],
     env |-> [p \in Procs |-> FALSE],
     cl |-> [p \in Procs |-> register_cleanup(NoCleanup, SegName, FALSE)],
     signals |-> 0]

\* the segment and the processes after shm_create, without the security fields
\* and the state outside the segment
InitSeg(calls) ==
    /\ generation = 0
    /\ next_free_node_index = 0
    /\ payload_alloc_off = 0
    /\ writer_mutex = "free"
    /\ hdr = NewHeader(ReqBuckets, ReqNodes,
                       requested_total_size(ReqBuckets, ReqNodes, ReqPayload))
    /\ st_size = requested_total_size(ReqBuckets, ReqNodes, ReqPayload)
    /\ buckets = [b \in 0..(ReqBuckets - 1) |-> EMPTY_INDEX]
    /\ nodes = [i \in 0..(ReqNodes - 1) |-> ZeroNode]
    /\ payload = <<>>
    /\ wpc = [w \in Writers |-> "idle"]
    /\ wl = [w \in Writers |-> IdleW]
    /\ rpc = [r \in Readers |-> "idle"]
    /\ rl = [r \in Readers |-> IdleR]
    /\ hist = [written |-> {}, ok |-> {}, encrypted |-> {}, allocs |-> <<>>, latest |-> {},
               opened |-> [legacy |-> FALSE, req_payload |-> ReqPayload,
                           map_total_size |-> st_size, init |-> TRUE]]
    /\ lastOK = [nodes_used |-> 0, payload_used |-> 0, heads |-> buckets, count |-> 0]
    /\ enc = EncIdle
    /\ budget = calls

InitCore(calls) ==
    /\ InitSeg(calls)
    /\ os = OsOpened

InitWith(calls) ==
    /\ InitCore(calls)
    /\ InitSec(1, [p \in Procs |-> IF p \in Writers THEN OWNER_UID ELSE OTHER_UID])

Init == InitWith([inserts |-> MaxInserts, lookups |-> MaxLookups, crashes |-> 0,
                  opens |-> 0])

InitCrash ==
    InitWith([inserts |-> MaxCrashInserts, lookups |-> MaxLookups, crashes |-> MaxCrashes,
              opens |-> 0])

InitOpen ==
    InitWith([inserts |-> MaxOpenInserts, lookups |-> MaxLookups, crashes |-> 0,
              opens |-> MaxOpens])

\* History kept for each lookup in progress: what writers did to the segment
\* after the lookup's opening generation sample and before its closing one.
Between(r) == rpc[r] \in {"head", "walk", "found", "g2"}

Seen(what) ==
    [r \in Readers |->
        IF Between(r)
        THEN [rl[r] EXCEPT !.seenBump = @ \/ what = "bump",
                           !.seenMod = @ \/ what \in {"mod", "cas"},
                           !.seenCas = @ \/ what = "cas"]
        ELSE rl[r]]

(***************************************************************************)
(* Writers: the insert skeleton shared by shm_insert and every typed       *)
(* insert (shm_insert_int_scalar is the typed one modelled), one action    *)
(* per access to the segment.                                              *)
(***************************************************************************)
InWriteSection(w) == wpc[w] \notin {"idle", "crashed"}

\* pthread_mutex_lock returning 0, or EOWNERDEAD followed by
\* pthread_mutex_consistent (robust mutex): the caller holds the mutex.
LockAcquirable == writer_mutex \in {"free", "dead"}

InsertLock(w, call) ==
    /\ wpc[w] = "idle"
    /\ budget.inserts > 0
    /\ LockAcquirable
    /\ writer_mutex' = w
    /\ wl' = [wl EXCEPT ![w] = [IdleW EXCEPT !.key = call.key, !.val = call.val,
                                             !.tag = call.tag, !.gen0 = generation,
                                             !.nfi0 = next_free_node_index,
                                             !.pay0 = payload_alloc_off,
                                             !.okBefore = lastOK.count]]
    /\ wpc' = [wpc EXCEPT ![w] = "gen1"]
    /\ budget' = [budget EXCEPT !.inserts = @ - 1]
    /\ UNCHANGED <<generation, next_free_node_index, payload_alloc_off, buckets, nodes,
                   payload, rpc, rl, hist, lastOK>>
    /\ UNCHANGED aux

\* variant that starts allocating without the first increment
InsertGen1NoBump(w) ==
    /\ wpc[w] = "gen1"
    /\ wpc' = [wpc EXCEPT ![w] = "key_load"]
    /\ UNCHANGED <<generation, next_free_node_index, payload_alloc_off, writer_mutex,
                   buckets, nodes, payload, wl, rpc, rl, hist, lastOK, budget>>
    /\ UNCHANGED aux

\* __atomic_fetch_add(&generation, 1) before the write
InsertGen1(w) ==
    /\ wpc[w] = "gen1"
    /\ generation' = generation + 1
    /\ rl' = Seen("bump")
    /\ wpc' = [wpc EXCEPT ![w] = "key_load"]
    /\ UNCHANGED <<next_free_node_index, payload_alloc_off, writer_mutex, buckets, nodes,
                   payload, wl, rpc, hist, lastOK, budget>>
    /\ UNCHANGED aux

\* alloc_payload: the length check
AllocLenOk(len) == ~(len = 0 \/ len > MAX_VAL_LEN)

\* alloc_payload: the capacity check made inside the CAS loop
AllocFits(current_off, aligned_len) == ~(current_off + aligned_len > payload_capacity)

AllocLen(w, stage) == IF stage = "key" THEN wl[w].key.len ELSE wl[w].val.len

\* where the insert goes once alloc_payload(stage) has returned `off`:
\* after the key, to the value; after the value, to the test of both results
AfterAlloc(w, stage, off) ==
    IF stage = "key" THEN "val_load"
    ELSE IF wl[w].key_off = ALLOC_FAIL \/ off = ALLOC_FAIL THEN "rollback"
    ELSE "copy_key"

SetAlloc(w, stage, off) ==
    IF stage = "key" THEN [wl[w] EXCEPT !.key_off = off, !.retries = 0]
    ELSE [wl[w] EXCEPT !.val_off = off, !.retries = 0]

\* alloc_payload, loop head: length check, load of the cursor, capacity check
AllocLoad(w, stage) ==
    /\ wpc[w] = stage \o "_load"
    /\ LET len == AllocLen(w, stage)
           current_off == payload_alloc_off
       IN  IF AllocLenOk(len) /\ AllocFits(current_off, align_up(len, 8))
           THEN /\ wl' = [wl EXCEPT ![w].cur = current_off]
                /\ wpc' = [wpc EXCEPT ![w] = stage \o "_cas"]
           ELSE /\ wl' = [wl EXCEPT ![w] = SetAlloc(w, stage, ALLOC_FAIL)]
                /\ wpc' = [wpc EXCEPT ![w] = AfterAlloc(w, stage, ALLOC_FAIL)]
    /\ UNCHANGED <<generation, next_free_node_index, payload_alloc_off, writer_mutex,
                   buckets, nodes, payload, rpc, rl, hist, lastOK, budget>>
    /\ UNCHANGED aux

\* variant of the compare-exchange that advances the cursor by the unaligned length
AllocCasUnaligned(w, stage) ==
    /\ wpc[w] = stage \o "_cas"
    /\ payload_alloc_off = wl[w].cur
    /\ payload_alloc_off' = wl[w].cur + AllocLen(w, stage)
    /\ wl' = [wl EXCEPT ![w] = SetAlloc(w, stage, wl[w].cur)]
    /\ wpc' = [wpc EXCEPT ![w] = AfterAlloc(w, stage, wl[w].cur)]
    /\ UNCHANGED <<generation, next_free_node_index, writer_mutex, buckets, nodes,
                   payload, rpc, rl, hist, lastOK, budget>>
    /\ UNCHANGED aux

\* alloc_payload, the compare-exchange on the cursor
AllocCas(w, stage) ==
    /\ wpc[w] = stage \o "_cas"
    /\ LET aligned_len == align_up(AllocLen(w, stage), 8)
           current_off == wl[w].cur
       IN  IF payload_alloc_off = current_off
           THEN /\ payload_alloc_off' = current_off + aligned_len
                /\ wl' = [wl EXCEPT ![w] = SetAlloc(w, stage, current_off)]
                /\ wpc' = [wpc EXCEPT ![w] = AfterAlloc(w, stage, current_off)]
           ELSE /\ UNCHANGED payload_alloc_off
                /\ IF wl[w].retries + 1 < MAX_CAS_RETRIES
                   THEN /\ wl' = [wl EXCEPT ![w].retries = @ + 1]
                        /\ wpc' = [wpc EXCEPT ![w] = stage \o "_load"]
                   ELSE /\ wl' = [wl EXCEPT ![w] = SetAlloc(w, stage, ALLOC_FAIL)]
                        /\ wpc' = [wpc EXCEPT ![w] = AfterAlloc(w, stage, ALLOC_FAIL)]
    /\ UNCHANGED <<generation, next_free_node_index, writer_mutex, buckets, nodes,
                   payload, rpc, rl, hist, lastOK, budget>>
    /\ UNCHANGED aux

\* memcpy(payloadBase + key_payload_off, k, key_len)
InsertCopyKey(w) ==
    /\ wpc[w] = "copy_key"
    /\ payload' = MemcpyTo(payload, wl[w].key_off, wl[w].key)
    /\ rl' = Seen("mod")
    /\ wpc' = [wpc EXCEPT ![w] = "copy_val"]
    /\ UNCHANGED <<generation, next_free_node_index, payload_alloc_off, writer_mutex,
                   buckets, nodes, wl, rpc, hist, lastOK, budget>>
    /\ UNCHANGED aux

\* memcpy(payloadBase + val_payload_off, v, value_len), or the typed store
InsertCopyVal(w) ==
    /\ wpc[w] = "copy_val"
    /\ payload' = MemcpyTo(payload, wl[w].val_off, wl[w].val)
    /\ hist' = [hist EXCEPT !.written = @ \cup {<<wl[w].key, wl[w].val>>}]
    /\ rl' = Seen("mod")
    /\ wpc' = [wpc EXCEPT ![w] = "alloc_node"]
    /\ UNCHANGED <<generation, next_free_node_index, payload_alloc_off, writer_mutex,
                   buckets, nodes, wl, rpc, lastOK, budget>>
    /\ UNCHANGED aux

\* variant that hands out the slots again once the array is full
NodeIndexTakenWraps(idx) == idx % n_nodes

\* variant of the bound test that lets the index n_nodes through
NodeIndexTakenOffByOne(idx) == IF idx > n_nodes THEN EMPTY_INDEX ELSE idx

\* alloc_node_index: the bound test on the fetched index
NodeIndexTaken(idx) == IF idx >= n_nodes THEN EMPTY_INDEX ELSE idx

\* alloc_node_index: fetch-add on next_free_node_index, then the test
InsertAllocNode(w) ==
    /\ wpc[w] = "alloc_node"
    /\ LET idx == next_free_node_index
           node_idx == NodeIndexTaken(idx)
       IN  /\ next_free_node_index' = idx + 1
           /\ wl' = [wl EXCEPT ![w].node_idx = node_idx]
           /\ wpc' = [wpc EXCEPT ![w] = IF node_idx = EMPTY_INDEX THEN "rollback"
                                        ELSE "write_node"]
    /\ UNCHANGED <<generation, payload_alloc_off, writer_mutex, buckets, nodes, payload,
                   rpc, rl, hist, lastOK, budget>>
    /\ UNCHANGED aux

\* Node tmp{}; ... ; the node as the insert fills it
NewNode(w) ==
    [key_off |-> wl[w].key_off, key_len |-> wl[w].key.len,
     val_off |-> wl[w].val_off, val_len |-> wl[w].val.len,
     next_index |-> EMPTY_INDEX, flags |-> 1, version |-> 1, value_type |-> wl[w].tag]

\* variant that goes on to publish the slot without storing the record
InsertWriteNodeSkipped(w) ==
    /\ wpc[w] = "write_node"
    /\ wl' = [wl EXCEPT ![w].retries = 0]
    /\ wpc' = [wpc EXCEPT ![w] = "load_head"]
    /\ UNCHANGED <<generation, next_free_node_index, payload_alloc_off, writer_mutex,
                   buckets, nodes, payload, rpc, rl, hist, lastOK, budget>>
    /\ UNCHANGED aux

\* nodes[node_idx] = tmp
InsertWriteNode(w) ==
    /\ wpc[w] = "write_node"
    /\ nodes' = [nodes EXCEPT ![wl[w].node_idx] = NewNode(w)]
    /\ rl' = Seen("mod")
    /\ wl' = [wl EXCEPT ![w].retries = 0]
    /\ wpc' = [wpc EXCEPT ![w] = "load_head"]
    /\ UNCHANGED <<generation, next_free_node_index, payload_alloc_off, writer_mutex,
                   buckets, payload, rpc, hist, lastOK, budget>>
    /\ UNCHANGED aux

\* variant that links the new node to itself
InsertLoadHeadSelfLink(w) ==
    /\ wpc[w] = "load_head"
    /\ LET old_head == buckets[BucketOf(wl[w].key)]
       IN  /\ wl' = [wl EXCEPT ![w].old_head = old_head]
           /\ nodes' = [nodes EXCEPT ![wl[w].node_idx].next_index = wl[w].node_idx]
    /\ rl' = Seen("mod")
    /\ wpc' = [wpc EXCEPT ![w] = "cas"]
    /\ UNCHANGED <<generation, next_free_node_index, payload_alloc_off, writer_mutex,
                   buckets, payload, rpc, hist, lastOK, budget>>
    /\ UNCHANGED aux

\* variant that stores the new index in the bucket head while linking it
InsertLoadHeadPublishes(w) ==
    /\ wpc[w] = "load_head"
    /\ LET old_head == buckets[BucketOf(wl[w].key)]
       IN  /\ wl' = [wl EXCEPT ![w].old_head = wl[w].node_idx]
           /\ nodes' = [nodes EXCEPT ![wl[w].node_idx].next_index = old_head]
           /\ buckets' = [buckets EXCEPT ![BucketOf(wl[w].key)] = wl[w].node_idx]
    /\ rl' = Seen("cas")
    /\ wpc' = [wpc EXCEPT ![w] = "cas"]
    /\ UNCHANGED <<generation, next_free_node_index, payload_alloc_off, writer_mutex,
                   payload, rpc, hist, lastOK, budget>>
    /\ UNCHANGED aux

\* variant that does not link the new node to the old head
InsertLoadHeadNoLink(w) ==
    /\ wpc[w] = "load_head"
    /\ wl' = [wl EXCEPT ![w].old_head = buckets[BucketOf(wl[w].key)]]
    /\ rl' = Seen("mod")
    /\ wpc' = [wpc EXCEPT ![w] = "cas"]
    /\ UNCHANGED <<generation, next_free_node_index, payload_alloc_off, writer_mutex,
                   buckets, nodes, payload, rpc, hist, lastOK, budget>>
    /\ UNCHANGED aux

\* old_head = load(bucket_ptr); nodes[node_idx].next_index = old_head
InsertLoadHead(w) ==
    /\ wpc[w] = "load_head"
    /\ LET old_head == buckets[BucketOf(wl[w].key)]
       IN  /\ wl' = [wl EXCEPT ![w].old_head = old_head]
           /\ nodes' = [nodes EXCEPT ![wl[w].node_idx].next_index = old_head]
    /\ rl' = Seen("mod")
    /\ wpc' = [wpc EXCEPT ![w] = "cas"]
    /\ UNCHANGED <<generation, next_free_node_index, payload_alloc_off, writer_mutex,
                   buckets, payload, rpc, hist, lastOK, budget>>
    /\ UNCHANGED aux

\* atomic_cas_u32(bucket_ptr, old_head, node_idx) and the retry loop around it
InsertCas(w) ==
    /\ wpc[w] = "cas"
    /\ LET b == BucketOf(wl[w].key)
       IN  IF buckets[b] = wl[w].old_head
           THEN /\ buckets' = [buckets EXCEPT ![b] = wl[w].node_idx]
                /\ rl' = Seen("cas")
                /\ wpc' = [wpc EXCEPT ![w] = "gen2"]
                /\ UNCHANGED wl
           ELSE /\ UNCHANGED <<buckets, rl>>
                /\ wl' = [wl EXCEPT ![w].retries = @ + 1]
                /\ wpc' = [wpc EXCEPT ![w] = IF wl[w].retries + 1 < MAX_CAS_RETRIES
                                             THEN "load_head" ELSE "rollback"]
    /\ UNCHANGED <<generation, next_free_node_index, payload_alloc_off, writer_mutex,
                   nodes, payload, rpc, hist, lastOK, budget>>
    /\ UNCHANGED aux

\* variant of the failure paths that returns NO_SPACE with the mutex held
InsertRollbackNoUnlock(w) ==
    /\ wpc[w] = "rollback"
    /\ generation' = generation + 1
    /\ rl' = Seen("bump")
    /\ wl' = [wl EXCEPT ![w] = IdleW]
    /\ wpc' = [wpc EXCEPT ![w] = "idle"]
    /\ UNCHANGED <<next_free_node_index, payload_alloc_off, writer_mutex, buckets, nodes,
                   payload, rpc, hist, lastOK, budget>>
    /\ UNCHANGED aux

\* variant of the failure paths that unlocks without the second increment
InsertRollbackNoBump(w) ==
    /\ wpc[w] = "rollback"
    /\ wl' = [wl EXCEPT ![w].err = SHM_ERR_NO_SPACE]
    /\ wpc' = [wpc EXCEPT ![w] = "unlock"]
    /\ UNCHANGED <<generation, next_free_node_index, payload_alloc_off, writer_mutex,
                   buckets, nodes, payload, rpc, rl, hist, lastOK, budget>>
    /\ UNCHANGED aux

\* failure paths: __atomic_fetch_add(&generation, 1), then unlock, NO_SPACE
InsertRollback(w) ==
    /\ wpc[w] = "rollback"
    /\ generation' = generation + 1
    /\ rl' = Seen("bump")
    /\ wl' = [wl EXCEPT ![w].err = SHM_ERR_NO_SPACE]
    /\ wpc' = [wpc EXCEPT ![w] = "unlock"]
    /\ UNCHANGED <<next_free_node_index, payload_alloc_off, writer_mutex, buckets, nodes,
                   payload, rpc, hist, lastOK, budget>>
    /\ UNCHANGED aux

\* success path: __atomic_fetch_add(&generation, 1) after the CAS; the insert
\* is committed (history: the latest committed entry of each key)
InsertGen2(w) ==
    /\ wpc[w] = "gen2"
    /\ generation' = generation + 1
    /\ rl' = Seen("bump")
    /\ wl' = [wl EXCEPT ![w].err = SHM_OK]
    /\ wpc' = [wpc EXCEPT ![w] = "unlock"]
    /\ hist' = [hist EXCEPT !.latest = {e \in @ : e[1] # wl[w].key}
                                          \cup {<<wl[w].key, wl[w].tag, wl[w].val>>}]
    /\ UNCHANGED <<next_free_node_index, payload_alloc_off, writer_mutex, buckets, nodes,
                   payload, rpc, lastOK, budget>>
    /\ UNCHANGED aux

\* pthread_mutex_unlock; return err
InsertUnlock(w) ==
    /\ wpc[w] = "unlock"
    /\ writer_mutex' = "free"
    /\ IF wl[w].err = SHM_OK
       THEN /\ hist' = [hist EXCEPT !.ok = @ \cup {<<wl[w].key, wl[w].tag, wl[w].val>>}]
            /\ lastOK' = [nodes_used |-> next_free_node_index,
                          payload_used |-> payload_alloc_off, heads |-> buckets,
                          count |-> lastOK.count + 1]
       ELSE UNCHANGED <<hist, lastOK>>
    /\ wpc' = [wpc EXCEPT ![w] = "idle"]
    /\ wl' = [wl EXCEPT ![w] = IdleW]
    /\ UNCHANGED <<generation, next_free_node_index, payload_alloc_off, buckets, nodes,
                   payload, rpc, rl, budget>>
    /\ UNCHANGED aux

(***************************************************************************)
(* shm_create called on the name of the existing segment, by any process,  *)
(* in default mode or with SHM_CREATE_LEGACY set.                          *)
(***************************************************************************)
CreateCalls ==
    { [legacy |-> FALSE, n_buckets |-> ReqBuckets, n_nodes |-> ReqNodes, payload_size |-> ReqPayload],
      [legacy |-> FALSE, n_buckets |-> ReqBuckets, n_nodes |-> ReqNodes, payload_size |-> 2 * ReqPayload],
      [legacy |-> TRUE, n_buckets |-> ReqBuckets, n_nodes |-> ReqNodes, payload_size |-> ReqPayload],
      [legacy |-> TRUE, n_buckets |-> ReqBuckets, n_nodes |-> ReqNodes, payload_size |-> 2 * ReqPayload],
      [legacy |-> TRUE, n_buckets |-> ReqBuckets, n_nodes |-> 1, payload_size |-> 100] }

\* read_existing_total_size behind the test st_size >= header_size: the stored
\* total_size of a valid header, 0 when the header is not valid
ExistingTotal(size, h) ==
    IF size >= HEADER_SIZE /\ h.magic = MAGIC /\ h.version = 1 /\ h.total_size >= HEADER_SIZE
    THEN h.total_size ELSE 0

\* variant that takes the caller's geometry in every mode
map_total_size_requested(legacy, size, h, requested) == requested

\* the number of bytes shm_create maps
map_total_size(legacy, size, h, requested) ==
    IF legacy \/ ExistingTotal(size, h) = 0 THEN requested ELSE ExistingTotal(size, h)

\* shm_create extends the object (ftruncate) and sets need_init
need_init(legacy, size, h, requested) ==
    (legacy \/ ExistingTotal(size, h) = 0) /\ size < requested

ShmCreate(p, call) ==
    /\ budget.opens > 0
    /\ SegName \in os.names
    /\ os.cl[p].pos = "run"
    /\ os.handles[p] < MaxHandles
    /\ budget' = [budget EXCEPT !.opens = @ - 1]
    /\ os' = [os EXCEPT !.handles[p] = @ + 1,
                        !.cl[p] = register_cleanup(@, SegName, os.env[p])]
    /\ LET requested == requested_total_size(call.n_buckets, call.n_nodes, call.payload_size)
           total == map_total_size(call.legacy, st_size, hdr, requested)
           grow == need_init(call.legacy, st_size, hdr, requested)
           init == grow \/ hdr.magic # MAGIC
       IN  /\ st_size' = IF grow THEN total ELSE st_size
           /\ hist' = [hist EXCEPT !.opened = [legacy |-> call.legacy,
                                               req_payload |-> call.payload_size,
                                               map_total_size |-> total, init |-> init]]
           /\ IF init
              THEN /\ hdr' = NewHeader(call.n_buckets, call.n_nodes, total)
                   /\ next_free_node_index' = 0
                   /\ payload_alloc_off' = 0
                   /\ generation' = 0
                   /\ buckets' = [b \in 0..(call.n_buckets - 1) |-> EMPTY_INDEX]
                   /\ nodes' = [i \in 0..(call.n_nodes - 1) |-> ZeroNode]
                   /\ payload' = <<>>
                   /\ writer_mutex' = "free"
                   /\ owner_uid' = uid[p]
                   /\ auth_pid_count' = 1
                   /\ auth_pids' = [i \in 0..(MAX_AUTH_PIDS - 1) |->
                                       IF i = 0 THEN getpid(p) ELSE 0]
                   /\ authorized' = [asked |-> {getpid(p)}, added |-> {getpid(p)}]
                   /\ rl' = Seen("cas")
              ELSE UNCHANGED <<segment, hdr, rl, owner_uid, auth_pid_count, auth_pids,
                               authorized>>
    /\ UNCHANGED <<wpc, wl, rpc, lastOK, enc, uid, spc, sl>>

\* the process dies inside an insert, holding the mutex (robust mutex: the
\* next pthread_mutex_lock reports EOWNERDEAD)
Crash(w) ==
    /\ InWriteSection(w)
    /\ budget.crashes > 0
    /\ budget' = [budget EXCEPT !.crashes = @ - 1]
    /\ wpc' = [wpc EXCEPT ![w] = "crashed"]
    /\ wl' = [wl EXCEPT ![w].died_at = wpc[w]]
    /\ writer_mutex' = "dead"
    /\ UNCHANGED <<generation, next_free_node_index, payload_alloc_off, buckets, nodes,
                   payload, rpc, rl, hist, lastOK>>
    /\ UNCHANGED aux

(***************************************************************************)
(* Readers: shm_lookup ("lookup"), shm_lookup_int_scalar ("int_scalar")    *)
(* and shm_get_value_type ("get_type"), one action per load from the       *)
(* segment.  The typed ones walk the chain in find_node_by_key.            *)
(***************************************************************************)
\* the expected tag of a typed lookup
TagOf(kind) == IF kind = "int_scalar" THEN SHM_TYPE_INT_SCALAR ELSE SHM_TYPE_UNKNOWN

\* an insert of key that a lookup of this kind is meant to find has returned OK
InsertedOk(kind, key) ==
    IF kind = "int_scalar" THEN \E e \in hist.ok : e[1] = key /\ e[2] = SHM_TYPE_INT_SCALAR
    ELSE \E e \in hist.ok : e[1] = key

\* g1 = load(generation)
LookupStart(r, call) ==
    /\ rpc[r] = "idle"
    /\ budget.lookups > 0
    /\ budget' = [budget EXCEPT !.lookups = @ - 1]
    /\ rl' = [rl EXCEPT ![r] = [IdleR EXCEPT !.kind = call.kind, !.key = call.key,
                                             !.g1 = generation,
                                             !.okAtStart = InsertedOk(call.kind, call.key)]]
    /\ rpc' = [rpc EXCEPT ![r] = "head"]
    /\ UNCHANGED <<segment, wpc, wl, hist, lastOK>>
    /\ UNCHANGED aux

\* variant that serialises the lookup with the writers
LookupHeadLocked(r) ==
    /\ rpc[r] = "head"
    /\ LockAcquirable
    /\ writer_mutex' = r
    /\ rl' = [rl EXCEPT ![r].idx = buckets[BucketOf(rl[r].key)]]
    /\ rpc' = [rpc EXCEPT ![r] = "walk"]
    /\ UNCHANGED <<generation, next_free_node_index, payload_alloc_off, buckets, nodes,
                   payload, wpc, wl, hist, lastOK, budget>>
    /\ UNCHANGED aux

\* idx = load(bucket_ptr)
LookupHead(r) ==
    /\ rpc[r] = "head"
    /\ rl' = [rl EXCEPT ![r].idx = buckets[BucketOf(rl[r].key)]]
    /\ rpc' = [rpc EXCEPT ![r] = "walk"]
    /\ UNCHANGED <<segment, wpc, wl, hist, lastOK, budget>>
    /\ UNCHANGED aux

\* variant of the test without the memcmp of the key bytes
NodeMatchesNoMemcmp(n, key) ==
    /\ n.flags % 2 = 1
    /\ n.key_len = key.len

\* the test made on a visited node: active, same key length, same key bytes
NodeMatches(n, key) ==
    /\ n.flags % 2 = 1
    /\ n.key_len = key.len
    /\ ReadBytes(payload, n.key_off, key.len) = key

\* variant of the chain walk that accepts a match only at the end of the chain
LookupVisitOldest(r) ==
    /\ rpc[r] = "walk"
    /\ rl[r].idx # EMPTY_INDEX
    /\ LET n == NodeAt(rl[r].idx)
       IN  IF NodeMatches(n, rl[r].key) /\ n.next_index = EMPTY_INDEX
           THEN IF rl[r].kind = "lookup"
                THEN /\ rl' = [rl EXCEPT ![r].out = ReadBytes(payload, n.val_off, n.val_len)]
                     /\ rpc' = [rpc EXCEPT ![r] = "g2"]
                ELSE /\ UNCHANGED rl
                     /\ rpc' = [rpc EXCEPT ![r] = "found"]
           ELSE /\ rl' = [rl EXCEPT ![r].idx = n.next_index]
                /\ UNCHANGED rpc
    /\ UNCHANGED <<segment, wpc, wl, hist, lastOK, budget>>
    /\ UNCHANGED aux

\* one iteration of the chain walk: read the node, compare, follow next_index
LookupVisit(r) ==
    /\ rpc[r] = "walk"
    /\ rl[r].idx # EMPTY_INDEX
    /\ LET n == NodeAt(rl[r].idx)
       IN  IF NodeMatches(n, rl[r].key)
           THEN IF rl[r].kind = "lookup"
                THEN /\ rl' = [rl EXCEPT ![r].out = ReadBytes(payload, n.val_off, n.val_len)]
                     /\ rpc' = [rpc EXCEPT ![r] = "g2"]
                ELSE /\ UNCHANGED rl
                     /\ rpc' = [rpc EXCEPT ![r] = "found"]
           ELSE /\ rl' = [rl EXCEPT ![r].idx = n.next_index]
                /\ UNCHANGED rpc
    /\ UNCHANGED <<segment, wpc, wl, hist, lastOK, budget>>
    /\ UNCHANGED aux

\* the calls that load the generation again when the chain ended without a
\* match: shm_lookup does, find_node_by_key's callers return on nullptr
MissSamples(kind) == kind \in {"lookup", "decrypted"}

\* shm_lookup after a chain without a match: the comparison of the two samples
MissResult(g1, g2) == IF g1 # g2 THEN SHM_ERR_CONCURRENT_MOD ELSE SHM_ERR_NOT_FOUND

\* the chain ended: shm_lookup loads g2 and compares; the typed lookups and
\* shm_get_value_type return NOT_FOUND at once
LookupMiss(r) ==
    /\ rpc[r] = "walk"
    /\ rl[r].idx = EMPTY_INDEX
    /\ rl' = [rl EXCEPT ![r] =
                 IF MissSamples(rl[r].kind)
                 THEN [@ EXCEPT !.err = MissResult(rl[r].g1, generation),
                                !.g2 = generation, !.sampled = TRUE]
                 ELSE [@ EXCEPT !.err = SHM_ERR_NOT_FOUND]]
    /\ rpc' = [rpc EXCEPT ![r] = "done"]
    /\ UNCHANGED <<segment, wpc, wl, hist, lastOK, budget>>
    /\ UNCHANGED aux

\* variant of the type test that accepts every tag
TypeOkAny(kind, value_type) == TRUE

\* the type test of a typed lookup on the node found; shm_lookup and
\* shm_get_value_type have none
TypeOk(kind, value_type) ==
    kind \in {"lookup", "decrypted", "get_type"} \/ value_type = TagOf(kind)

\* the bytes a lookup hands out: node->val_len of them, 8 for a scalar
ValueLen(kind, n) == IF kind = "int_scalar" THEN 8 ELSE n.val_len

\* variant that reports the tag the caller expects instead of the node's
LookupFoundOwnTag(r) ==
    /\ rpc[r] = "found"
    /\ LET n == NodeAt(rl[r].idx)
       IN  IF TypeOk(rl[r].kind, n.value_type)
           THEN /\ rl' = [rl EXCEPT ![r].out_type = TagOf(rl[r].kind),
                                    ![r].out = IF rl[r].kind = "get_type" THEN NoBytes
                                               ELSE ReadBytes(payload, n.val_off, ValueLen(rl[r].kind, n))]
                /\ rpc' = [rpc EXCEPT ![r] = "g2"]
           ELSE /\ rl' = [rl EXCEPT ![r].err = SHM_ERR_TYPE_MISMATCH]
                /\ rpc' = [rpc EXCEPT ![r] = "done"]
    /\ UNCHANGED <<segment, wpc, wl, hist, lastOK, budget>>
    /\ UNCHANGED aux

\* typed lookups after find_node_by_key: node->value_type, then the value
LookupFound(r) ==
    /\ rpc[r] = "found"
    /\ LET n == NodeAt(rl[r].idx)
       IN  IF TypeOk(rl[r].kind, n.value_type)
           THEN /\ rl' = [rl EXCEPT ![r].out_type = n.value_type,
                                    ![r].out = IF rl[r].kind = "get_type" THEN NoBytes
                                               ELSE ReadBytes(payload, n.val_off, ValueLen(rl[r].kind, n))]
                /\ rpc' = [rpc EXCEPT ![r] = "g2"]
           ELSE /\ rl' = [rl EXCEPT ![r].err = SHM_ERR_TYPE_MISMATCH]
                /\ rpc' = [rpc EXCEPT ![r] = "done"]
    /\ UNCHANGED <<segment, wpc, wl, hist, lastOK, budget>>
    /\ UNCHANGED aux

\* variant that also rejects an odd sample, as a strict sequence lock does
HitResultParity(g1, g2) ==
    IF g1 = g2 /\ g1 % 2 = 0 THEN SHM_OK ELSE SHM_ERR_CONCURRENT_MOD

\* the comparison of the two generation samples
HitResult(g1, g2) == IF g1 = g2 THEN SHM_OK ELSE SHM_ERR_CONCURRENT_MOD

\* g2 = load(generation) after a match
LookupG2(r) ==
    /\ rpc[r] = "g2"
    /\ rl' = [rl EXCEPT ![r].err = HitResult(rl[r].g1, generation), ![r].g2 = generation,
                        ![r].sampled = TRUE]
    /\ rpc' = [rpc EXCEPT ![r] = IF rl[r].kind = "decrypted"
                                      /\ HitResult(rl[r].g1, generation) = SHM_OK
                                   THEN "decrypt" ELSE "done"]
    /\ UNCHANGED <<segment, wpc, wl, hist, lastOK, budget>>
    /\ UNCHANGED aux

\* the call has returned; the reader is free for its next call
LookupReturn(r) ==
    /\ rpc[r] = "done"
    /\ rl' = [rl EXCEPT ![r] = IdleR]
    /\ rpc' = [rpc EXCEPT ![r] = "idle"]
    /\ UNCHANGED <<segment, wpc, wl, hist, lastOK, budget>>
    /\ UNCHANGED aux

(***************************************************************************)
(* Set and dictionary values: what shm_insert_int_set,                     *)
(* shm_insert_dict_str_int and shm_insert_dict_str_bool store for their    *)
(* input when the insert skeleton succeeds, and what the matching lookup   *)
(* decodes from the stored bytes.  Strings are sequences of bytes.         *)
(***************************************************************************)
SetInputs == UNION { [1..n -> {1, 2, 3}] : n \in 0..MaxSetLen }

DictKeys == { <<97>>, <<98>>, <<0, 0>>, <<0, 97>> }
DictPairs == [k : DictKeys, v : {0, 1}]
DictInputs == UNION { [1..n -> DictPairs] : n \in 0..MaxPairs }
DictKinds == {"dict_str_int", "dict_str_bool"}

Min(a, b) == IF a < b THEN a ELSE b

\* memcmp(a, b, n) from byte i on: negative, 0 or positive
RECURSIVE memcmp(_, _, _, _)
memcmp(a, b, i, n) ==
    IF i > n THEN 0
    ELSE IF a[i] # b[i] THEN a[i] - b[i]
    ELSE memcmp(a, b, i + 1, n)

\* strncmp(a, b, n) from byte i on: as memcmp, but stops after a NUL byte
RECURSIVE strncmp(_, _, _, _)
strncmp(a, b, i, n) ==
    IF i > n THEN 0
    ELSE IF a[i] # b[i] THEN a[i] - b[i]
    ELSE IF a[i] = 0 THEN 0
    ELSE strncmp(a, b, i + 1, n)

bytes_less(a, b) ==
    LET cmp == IF Min(Len(a), Len(b)) > 0 THEN memcmp(a, b, 1, Min(Len(a), Len(b))) ELSE 0
    IN  IF cmp # 0 THEN cmp < 0 ELSE Len(a) < Len(b)

bytes_equal(a, b) == Len(a) = Len(b) /\ (Len(a) = 0 \/ memcmp(a, b, 1, Len(a)) = 0)

\* KVPair::operator< of shm_insert_dict_str_int
KVPairLess(p, q) ==
    LET cmp == strncmp(p.k, q.k, 1, Min(Len(p.k), Len(q.k)))
    IN  IF cmp # 0 THEN cmp < 0 ELSE Len(p.k) < Len(q.k)

\* the comparison each dictionary insert hands to std::sort
PairLess(kind, p, q) ==
    IF kind = "dict_str_int" THEN KVPairLess(p, q) ELSE bytes_less(p.k, q.k)

\* the rearrangements of a sequence
Perms(seq) ==
    { [i \in 1..Len(seq) |-> seq[f[i]]] :
        f \in { g \in [1..Len(seq) -> 1..Len(seq)] : \A i, j \in 1..Len(seq) : g[i] = g[j] => i = j } }

\* std::sort: any rearrangement in which no element is less than one before
\* it (the order of elements that compare equivalent is unspecified)
std_sort_pairs(kind, pairs) ==
    { p \in Perms(pairs) : \A i, j \in 1..Len(p) : i < j => ~PairLess(kind, p[j], p[i]) }

\* std::sort on int64_t
std_sort(values) ==
    CHOOSE p \in Perms(values) : \A i, j \in 1..Len(p) : i < j => p[i] <= p[j]

\* std::unique followed by erase: drops each element equal to the one before it
RECURSIVE std_unique(_)
std_unique(seq) ==
    IF Len(seq) <= 1 THEN seq
    ELSE IF seq[1] = seq[2] THEN std_unique(Tail(seq))
    ELSE <<seq[1]>> \o std_unique(Tail(seq))

\* shm_insert_int_set: [count][elem0][elem1]...
EncodeIntSet(values) ==
    LET sorted_unique == std_unique(std_sort(values))
    IN  [NoValue EXCEPT !.count = Len(sorted_unique), !.values = sorted_unique]

\* shm_lookup_int_set: the elements of the view (count, data)
DecodeIntSet(stored) == [i \in 1..stored.count |-> stored.values[i]]

\* the duplicate test made after the sort; shm_insert_dict_str_int has none
HasDuplicateCheck(kind) == kind # "dict_str_int"

AdjacentEqual(pairs) ==
    \E i \in 2..Len(pairs) : bytes_equal(pairs[i - 1].k, pairs[i].k)

\* key_offsets[0..count]: the running sum of the key lengths
RECURSIVE KeyOffsets(_, _)
KeyOffsets(pairs, current_offset) ==
    IF pairs = <<>> THEN <<current_offset>>
    ELSE <<current_offset>> \o KeyOffsets(Tail(pairs), current_offset + Len(pairs[1].k))

\* keys_data: the keys copied one after the other
RECURSIVE KeysData(_)
KeysData(pairs) == IF pairs = <<>> THEN <<>> ELSE pairs[1].k \o KeysData(Tail(pairs))

\* [count][key_offsets][keys_data][values] written from the sorted pairs
EncodeDict(pairs) ==
    [count |-> Len(pairs), key_offsets |-> KeyOffsets(pairs, 0),
     keys_data |-> KeysData(pairs), values |-> [i \in 1..Len(pairs) |-> pairs[i].v]]

\* the entries read through the view of a dictionary lookup
DecodeDict(stored) ==
    [i \in 1..stored.count |->
        [k |-> SubSeq(stored.keys_data, stored.key_offsets[i] + 1, stored.key_offsets[i + 1]),
         v |-> stored.values[i]]]

EncInsertIntSet(values) ==
    /\ enc.pc = "idle"
    /\ enc' = [EncIdle EXCEPT !.pc = "stored", !.op = "int_set", !.input = values,
                              !.node = TRUE, !.stored = EncodeIntSet(values)]
    /\ UNCHANGED <<segment, wpc, wl, rpc, rl, hist, lastOK, budget, hdr, st_size, os, sec>>

EncInsertDict(kind, pairs) ==
    /\ enc.pc = "idle"
    /\ \E sorted \in std_sort_pairs(kind, pairs) :
           enc' = IF HasDuplicateCheck(kind) /\ AdjacentEqual(sorted)
                  THEN [EncIdle EXCEPT !.pc = "stored", !.op = kind, !.input = pairs,
                                       !.err = SHM_ERR_INVALID_PARAM]
                  ELSE [EncIdle EXCEPT !.pc = "stored", !.op = kind, !.input = pairs,
                                       !.node = TRUE, !.stored = EncodeDict(sorted)]
    /\ UNCHANGED <<segment, wpc, wl, rpc, rl, hist, lastOK, budget, hdr, st_size, os, sec>>

EncLookup ==
    /\ enc.pc = "stored"
    /\ enc.op # "object"
    /\ enc.node
    /\ enc' = [enc EXCEPT !.pc = "decoded",
                          !.out = IF enc.op = "int_set" THEN DecodeIntSet(enc.stored)
                                  ELSE DecodeDict(enc.stored)]
    /\ UNCHANGED <<segment, wpc, wl, rpc, rl, hist, lastOK, budget, hdr, st_size, os, sec>>

EncReturn ==
    /\ enc.pc \in {"stored", "decoded", "field"}
    /\ \A w \in Writers : wpc[w] = "idle"
    /\ enc' = EncIdle
    /\ UNCHANGED <<segment, wpc, wl, rpc, rl, hist, lastOK, budget, hdr, st_size, os, sec>>

(***************************************************************************)
(* OBJECT values: shm_insert_object sorts the fields by name, rejects      *)
(* duplicate names before it locks, and then runs the insert skeleton on   *)
(* the encoded value; shm_lookup_object decodes the view and               *)
(* shm_object_get_field searches it.                                       *)
(***************************************************************************)
FieldNames == { <<>>, <<97>>, <<97, 97>>, <<98>> }
FieldValues == { [type |-> SHM_TYPE_INT_SCALAR, payload |-> <<7>>],
                 [type |-> SHM_TYPE_STRING, payload |-> <<>>] }
Fields == { [name |-> n, type |-> v.type, payload |-> v.payload] :
              n \in FieldNames, v \in FieldValues }
ObjectInputs == UNION { [1..n -> Fields] : n \in 0..MaxFields }
\* names asked of shm_object_get_field: those used and one never stored
QueryNames == FieldNames \cup { <<97, 98>> }

std_sort_fields_unsorted(fields) == { fields }

\* std::sort of the fields with bytes_less on the names
std_sort_fields(fields) ==
    { p \in Perms(fields) :
        \A i, j \in 1..Len(p) : i < j => ~bytes_less(p[j].name, p[i].name) }

\* the duplicate test on the sorted fields
AdjacentEqualNames(fields) ==
    \E i \in 2..Len(fields) : bytes_equal(fields[i - 1].name, fields[i].name)

\* name_offsets and value_offsets: running sums of the lengths
RECURSIVE Offsets(_, _)
Offsets(lens, cur) ==
    IF lens = <<>> THEN <<cur>> ELSE <<cur>> \o Offsets(Tail(lens), cur + lens[1])

RECURSIVE Blob(_)
Blob(parts) == IF parts = <<>> THEN <<>> ELSE parts[1] \o Blob(Tail(parts))

\* [count][name_offsets][names_blob][field_types][pad][value_offsets][values_blob]
EncodeObject(fields) ==
    [count |-> Len(fields),
     name_offsets |-> Offsets([i \in 1..Len(fields) |-> Len(fields[i].name)], 0),
     names_data |-> Blob([i \in 1..Len(fields) |-> fields[i].name]),
     field_types |-> [i \in 1..Len(fields) |-> fields[i].type],
     value_offsets |-> Offsets([i \in 1..Len(fields) |-> Len(fields[i].payload)], 0),
     values_data |-> Blob([i \in 1..Len(fields) |-> fields[i].payload])]

\* val_size of the encoded object
ObjectSize(fields) ==
    LET count == Len(fields)
        total_names == Len(Blob([i \in 1..count |-> fields[i].name]))
        total_values == Len(Blob([i \in 1..count |-> fields[i].payload]))
    IN  align_up(4 + 4 * (count + 1) + total_names + count, 4) + 4 * (count + 1) + total_values

\* the name of field mid (0-based) in the view
ViewName(view, mid) ==
    SubSeq(view.names_data, view.name_offsets[mid + 1] + 1, view.name_offsets[mid + 2])

NoField == [err |-> SHM_ERR_NOT_FOUND, type |-> 0, payload |-> <<>>]

\* out_value for field mid (0-based)
FieldAt(view, mid) ==
    [err |-> SHM_OK, type |-> view.field_types[mid + 1],
     payload |-> SubSeq(view.values_data, view.value_offsets[mid + 1] + 1,
                        view.value_offsets[mid + 2])]

SearchLeft(name, field_name) == bytes_less(field_name, name)

\* the direction test of the search loop
SearchRight(name, field_name) == bytes_less(name, field_name)

\* the loop of shm_object_get_field over [lo, hi)
RECURSIVE ObjectSearch(_, _, _, _)
ObjectSearch(view, field_name, lo, hi) ==
    IF lo >= hi THEN NoField
    ELSE LET mid == lo + (hi - lo) \div 2
         IN  IF bytes_equal(ViewName(view, mid), field_name) THEN FieldAt(view, mid)
             ELSE IF SearchRight(ViewName(view, mid), field_name)
                  THEN ObjectSearch(view, field_name, mid + 1, hi)
                  ELSE ObjectSearch(view, field_name, lo, mid)

shm_object_get_field(view, field_name) == ObjectSearch(view, field_name, 0, view.count)

\* shm_insert_object up to and including pthread_mutex_lock
EncInsertObject(w, fields) ==
    /\ enc.pc = "idle"
    /\ wpc[w] = "idle"
    /\ budget.inserts > 0
    /\ \E sorted \in std_sort_fields(fields) :
           IF AdjacentEqualNames(sorted)
           THEN /\ enc' = [EncIdle EXCEPT !.pc = "stored", !.op = "object", !.input = fields,
                                          !.err = SHM_ERR_INVALID_PARAM]
                /\ UNCHANGED <<writer_mutex, wl, wpc, budget>>
           ELSE /\ LockAcquirable
                /\ writer_mutex' = w
                /\ wl' = [wl EXCEPT ![w] = [IdleW EXCEPT !.key = KeyB,
                                                         !.val = Run(ObjectSize(sorted), 5),
                                                         !.tag = SHM_TYPE_OBJECT,
                                                         !.gen0 = generation,
                                                         !.nfi0 = next_free_node_index,
                                                         !.pay0 = payload_alloc_off,
                                                         !.okBefore = lastOK.count]]
                /\ wpc' = [wpc EXCEPT ![w] = "gen1"]
                /\ budget' = [budget EXCEPT !.inserts = @ - 1]
                /\ enc' = [EncIdle EXCEPT !.pc = "stored", !.op = "object", !.input = fields,
                                          !.node = TRUE, !.stored = EncodeObject(sorted)]
    /\ UNCHANGED <<generation, next_free_node_index, payload_alloc_off, buckets, nodes,
                   payload, rpc, rl, hist, lastOK, hdr, st_size, os, sec>>

\* shm_lookup_object: the first node visited for the key matches it and carries
\* tag OBJECT
EncLookupObject ==
    /\ enc.pc = "stored"
    /\ enc.op = "object"
    /\ enc.node
    /\ buckets[BucketOf(KeyB)] # EMPTY_INDEX
    /\ NodeMatches(NodeAt(buckets[BucketOf(KeyB)]), KeyB)
    /\ NodeAt(buckets[BucketOf(KeyB)]).value_type = SHM_TYPE_OBJECT
    /\ enc' = [enc EXCEPT !.pc = "decoded"]
    /\ UNCHANGED <<segment, wpc, wl, rpc, rl, hist, lastOK, budget, hdr, st_size, os, sec>>

\* shm_object_get_field on the view
EncGetField(field_name) ==
    /\ enc.pc = "decoded"
    /\ enc.op = "object"
    /\ enc' = [enc EXCEPT !.pc = "field",
                          !.out = <<field_name, shm_object_get_field(enc.stored, field_name)>>]
    /\ UNCHANGED <<segment, wpc, wl, rpc, rl, hist, lastOK, budget, hdr, st_size, os, sec>>

(***************************************************************************)
(* Permissions: shm_check_owner, shm_check_authorized,                     *)
(* shm_add_authorized_pid, and the two calls they gate,                    *)
(* shm_insert_encrypted and shm_lookup_decrypted.  shm_get_stats is the    *)
(* remaining call that only reads the header.                              *)
(***************************************************************************)
\* the process is outside every call
ProcIdle(p) ==
    /\ spc[p] = "idle"
    /\ p \in Writers => wpc[p] = "idle"
    /\ p \in Readers => rpc[p] = "idle"

IsOwnerAlways(p) == TRUE

\* getuid() == hdr->owner_uid
IsOwner(p) == uid[p] = owner_uid

\* the scan of auth_pids[0 .. min(auth_count, 32)) for a pid
InList(auth_count, pid) ==
    \E i \in 0..(Min(auth_count, MAX_AUTH_PIDS) - 1) : auth_pids[i] = pid

\* what shm_check_authorized stores in *is_authorized
IsAuthorized(p) == IsOwner(p) \/ InList(auth_pid_count, getpid(p))

\* the pids passed to shm_add_authorized_pid: the reader's, the creator's
\* (always in the list) and one of no process of the model
AddPids == { getpid("r1"), getpid("w1"), 300 }

\* shm_add_authorized_pid up to the store: the owner test, the load of
\* auth_pid_count, the scan for the pid, the test for a full list
AddStart(p, pid) ==
    /\ ProcIdle(p)
    /\ budget.adds > 0
    /\ budget' = [budget EXCEPT !.adds = @ - 1]
    /\ IF ~IsOwner(p)
       THEN /\ sl' = [sl EXCEPT ![p] = [IdleS EXCEPT !.op = "add", !.pid = pid,
                                                     !.err = SHM_ERR_PERMISSION_DENIED]]
            /\ spc' = [spc EXCEPT ![p] = "done"]
            /\ UNCHANGED authorized
       ELSE IF InList(auth_pid_count, pid)
       THEN /\ sl' = [sl EXCEPT ![p] = [IdleS EXCEPT !.op = "add", !.pid = pid,
                                                     !.auth_count = auth_pid_count]]
            /\ spc' = [spc EXCEPT ![p] = "done"]
            /\ UNCHANGED authorized
       ELSE IF auth_pid_count >= MAX_AUTH_PIDS
       THEN /\ sl' = [sl EXCEPT ![p] = [IdleS EXCEPT !.op = "add", !.pid = pid,
                                                     !.auth_count = auth_pid_count,
                                                     !.err = SHM_ERR_NO_SPACE]]
            /\ spc' = [spc EXCEPT ![p] = "done"]
            /\ UNCHANGED authorized
       ELSE /\ sl' = [sl EXCEPT ![p] = [IdleS EXCEPT !.op = "add", !.pid = pid,
                                                     !.auth_count = auth_pid_count]]
            /\ spc' = [spc EXCEPT ![p] = "store"]
            /\ authorized' = [authorized EXCEPT !.asked = @ \cup {pid}]
    /\ UNCHANGED <<segment, wpc, wl, rpc, rl, hist, lastOK, hdr, st_size, os, enc, owner_uid,
                   auth_pid_count, auth_pids, uid>>

\* s->hdr->auth_pids[auth_count] = pid
AddStore(p) ==
    /\ spc[p] = "store"
    /\ auth_pids' = [auth_pids EXCEPT ![sl[p].auth_count] = sl[p].pid]
    /\ spc' = [spc EXCEPT ![p] = "inc"]
    /\ UNCHANGED <<segment, wpc, wl, rpc, rl, hist, lastOK, budget, hdr, st_size, os, enc,
                   owner_uid, auth_pid_count, uid, sl, authorized>>

\* __atomic_fetch_add(&auth_pid_count, 1); return SHM_OK
AddInc(p) ==
    /\ spc[p] = "inc"
    /\ auth_pid_count' = auth_pid_count + 1
    /\ spc' = [spc EXCEPT ![p] = "done"]
    /\ authorized' = [authorized EXCEPT !.added = @ \cup {sl[p].pid}]
    /\ UNCHANGED <<segment, wpc, wl, rpc, rl, hist, lastOK, budget, hdr, st_size, os, enc,
                   owner_uid, auth_pids, uid, sl>>

\* shm_check_owner
CheckOwner(p) ==
    /\ ProcIdle(p)
    /\ sl' = [sl EXCEPT ![p] = [IdleS EXCEPT !.op = "check_owner",
                                             !.out = IF IsOwner(p) THEN 1 ELSE 0]]
    /\ spc' = [spc EXCEPT ![p] = "done"]
    /\ UNCHANGED <<segment, wpc, wl, rpc, rl, hist, lastOK, budget, hdr, st_size, os, enc,
                   owner_uid, auth_pid_count, auth_pids, uid, authorized>>

\* shm_check_authorized
CheckAuthorized(p) ==
    /\ ProcIdle(p)
    /\ sl' = [sl EXCEPT ![p] = [IdleS EXCEPT !.op = "check_authorized",
                                             !.out = IF IsAuthorized(p) THEN 1 ELSE 0]]
    /\ spc' = [spc EXCEPT ![p] = "done"]
    /\ UNCHANGED <<segment, wpc, wl, rpc, rl, hist, lastOK, budget, hdr, st_size, os, enc,
                   owner_uid, auth_pid_count, auth_pids, uid, authorized>>

\* shm_get_stats
GetStats(p) ==
    /\ ProcIdle(p)
    /\ sl' = [sl EXCEPT ![p] =
                 [IdleS EXCEPT !.op = "get_stats",
                               !.stats = [n_buckets |-> hdr.n_buckets, n_nodes |-> hdr.n_nodes,
                                          nodes_used |-> next_free_node_index,
                                          payload_capacity |-> payload_capacity,
                                          payload_used |-> payload_alloc_off,
                                          generation |-> generation]]]
    /\ spc' = [spc EXCEPT ![p] = "done"]
    /\ UNCHANGED <<segment, wpc, wl, rpc, rl, hist, lastOK, budget, hdr, st_size, os, enc,
                   owner_uid, auth_pid_count, auth_pids, uid, authorized>>

\* the permission call has returned
SecReturn(p) ==
    /\ spc[p] = "done"
    /\ spc' = [spc EXCEPT ![p] = "idle"]
    /\ sl' = [sl EXCEPT ![p] = IdleS]
    /\ UNCHANGED <<segment, wpc, wl, rpc, rl, hist, lastOK, budget, hdr, st_size, os, enc,
                   owner_uid, auth_pid_count, auth_pids, uid, authorized>>

\* plaintexts passed to shm_insert_encrypted
PlainValues == { Run(5, 6), Run(16, 6) }

AES_BLOCK_SIZE == 16

\* the buffer shm_insert_encrypted allocates: 4 + value_len rounded up to blocks
total_payload_len(value_len) ==
    4 + ((value_len + AES_BLOCK_SIZE - 1) \div AES_BLOCK_SIZE) * AES_BLOCK_SIZE

\* what EVP_EncryptUpdate and EVP_EncryptFinal_ex write: the padded
\* ciphertext, always at least one byte of padding
actual_encrypted_len(value_len) == (value_len \div AES_BLOCK_SIZE + 1) * AES_BLOCK_SIZE

\* the bytes handed to shm_insert: the uint32 original length, then the
\* ciphertext (fill 1000 + n stands for prefix n followed by ciphertext)
EncryptedValue(value) == Run(4 + actual_encrypted_len(value.len), 1000 + value.len)

\* temp_buffer holds a length prefix followed by whole cipher blocks
IsCiphertext(bytes) == bytes.fill >= 1000 /\ bytes.len > 4 /\ (bytes.len - 4) % AES_BLOCK_SIZE = 0

\* *reinterpret_cast<uint32_t*>(temp_buffer)
original_val_len(bytes) == IF bytes.fill >= 1000 THEN bytes.fill - 1000 ELSE bytes.fill * 16843009

\* shm_insert_encrypted up to and including pthread_mutex_lock in shm_insert.
\* For a plaintext of whole blocks the padding block is written past the end
\* of total_payload: the call goes on, or the process is terminated.
InsertEncrypted(p, value) ==
    /\ ProcIdle(p)
    /\ IF ~IsOwner(p)
       THEN /\ sl' = [sl EXCEPT ![p] = [IdleS EXCEPT !.op = "insert_encrypted",
                                                     !.err = SHM_ERR_PERMISSION_DENIED]]
            /\ spc' = [spc EXCEPT ![p] = "done"]
            /\ UNCHANGED <<writer_mutex, wl, wpc, budget, hist>>
       ELSE /\ p \in Writers
            /\ budget.inserts > 0
            /\ budget' = [budget EXCEPT !.inserts = @ - 1]
            /\ \/ /\ LockAcquirable
                  /\ writer_mutex' = p
                  /\ wl' = [wl EXCEPT ![p] = [IdleW EXCEPT !.key = KeyC,
                                                           !.val = EncryptedValue(value),
                                                           !.tag = SHM_TYPE_UNKNOWN,
                                                           !.gen0 = generation,
                                                           !.nfi0 = next_free_node_index,
                                                           !.pay0 = payload_alloc_off,
                                                           !.okBefore = lastOK.count]]
                  /\ wpc' = [wpc EXCEPT ![p] = "gen1"]
                  /\ hist' = [hist EXCEPT !.encrypted = @ \cup {<<KeyC, value.len, uid[p]>>}]
                  /\ UNCHANGED <<spc, sl>>
               \/ /\ actual_encrypted_len(value.len) + 4 > total_payload_len(value.len)
                  /\ spc' = [spc EXCEPT ![p] = "terminated"]
                  /\ UNCHANGED <<writer_mutex, wl, wpc, hist, sl>>
    /\ UNCHANGED <<generation, next_free_node_index, payload_alloc_off, buckets, nodes,
                   payload, rpc, rl, lastOK, hdr, st_size, os, enc, owner_uid, auth_pid_count,
                   auth_pids, uid, authorized>>

\* shm_lookup_decrypted up to the first load of shm_lookup: the permission
\* test, then g1 = load(generation)
LookupDecrypted(r) ==
    /\ ProcIdle(r)
    /\ budget.lookups > 0
    /\ budget' = [budget EXCEPT !.lookups = @ - 1]
    /\ IF ~IsAuthorized(r)
       THEN /\ sl' = [sl EXCEPT ![r] = [IdleS EXCEPT !.op = "lookup_decrypted",
                                                     !.err = SHM_ERR_PERMISSION_DENIED]]
            /\ spc' = [spc EXCEPT ![r] = "done"]
            /\ UNCHANGED <<rl, rpc>>
       ELSE /\ rl' = [rl EXCEPT ![r] = [IdleR EXCEPT !.kind = "decrypted", !.key = KeyC,
                                                     !.g1 = generation,
                                                     !.okAtStart = InsertedOk("decrypted", KeyC)]]
            /\ rpc' = [rpc EXCEPT ![r] = "head"]
            /\ UNCHANGED <<sl, spc>>
    /\ UNCHANGED <<segment, wpc, wl, hist, lastOK, hdr, st_size, os, enc, owner_uid,
                   auth_pid_count, auth_pids, uid, authorized>>

\* after shm_lookup_copy returned OK: the length test, the prefix, the
\* decryption, *out_value_len = original_val_len
LookupDecrypt(r) ==
    /\ rpc[r] = "decrypt"
    /\ rl' = [rl EXCEPT ![r] =
                 IF rl[r].out.len < 4 THEN [@ EXCEPT !.err = SHM_ERR_INVALID_PARAM]
                 ELSE IF ~IsCiphertext(rl[r].out) THEN [@ EXCEPT !.err = SHM_ERR_OPEN_FAILED]
                 ELSE [@ EXCEPT !.out_value_len = original_val_len(rl[r].out)]]
    /\ rpc' = [rpc EXCEPT ![r] = "done"]
    /\ UNCHANGED <<segment, wpc, wl, hist, lastOK, budget>>
    /\ UNCHANGED aux

(***************************************************************************)
(* The name of the segment in the shared-memory namespace: shm_create on   *)
(* another name, shm_close, shm_destroy, and the process-exit cleanup that  *)
(* register_cleanup installs.  A process that leaves does so outside every  *)
(* call; a process that dies inside an insert is Crash.                     *)
(***************************************************************************)
\* the segment's contents: what an insert writes and a lookup reads
contents == <<generation, next_free_node_index, payload_alloc_off, buckets, nodes, payload>>

\* everything but os
notOs == <<segment, wpc, wl, rpc, rl, hist, lastOK, budget, hdr, st_size, enc, sec>>

\* the process is running and holds a handle on the segment
Live(p) == os.cl[p].pos = "run" /\ os.handles[p] > 0

\* shm_create(OtherName, ...): the name enters the namespace (shm_open with
\* O_CREAT) and register_cleanup(OtherName) runs; that segment's bytes are not
\* carried
ShmCreateOther(p) ==
    /\ budget.opens > 0
    /\ os.cl[p].pos = "run"
    /\ ProcIdle(p)
    /\ budget' = [budget EXCEPT !.opens = @ - 1]
    /\ os' = [os EXCEPT !.names = @ \cup {OtherName},
                        !.cl[p] = register_cleanup(@, OtherName, os.env[p])]
    /\ UNCHANGED <<segment, wpc, wl, rpc, rl, hist, lastOK, hdr, st_size, enc, sec>>

\* shm_close(handle): munmap, close(fd), delete
ShmClose(p) ==
    /\ Live(p)
    /\ ProcIdle(p)
    /\ os' = [os EXCEPT !.handles[p] = @ - 1]
    /\ UNCHANGED notOs

\* shm_destroy(name): shm_unlink(name)
ShmDestroy(p, name) ==
    /\ os.cl[p].pos = "run"
    /\ ProcIdle(p)
    /\ name \in os.names
    /\ os' = [os EXCEPT !.names = @ \ {name}]
    /\ UNCHANGED notOs

\* the process has ended: its mappings and descriptors are gone
Ended(c) == [c EXCEPT !.pos = "exited"]

\* exit() or return from main: the atexit hook, if register_cleanup installed
\* it, runs cleanup_shared_memory
Exit(p) ==
    /\ os.cl[p].pos = "run"
    /\ ProcIdle(p)
    /\ os' = IF os.cl[p].registered
             THEN [os EXCEPT !.cl[p].pos = "test"]
             ELSE [os EXCEPT !.cl[p] = Ended(@), !.handles[p] = 0]
    /\ UNCHANGED notOs

\* SIGINT, SIGTERM or SIGHUP arrives, at any point before the process has
\* ended: signal_handler runs cleanup_shared_memory from its start and then
\* _exit; without the handlers the signal ends the process
Signal(p) ==
    /\ os.cl[p].pos # "exited"
    /\ ProcIdle(p)
    /\ os.signals < MaxSignals
    /\ os' = IF os.cl[p].registered
             THEN [os EXCEPT !.cl[p].pos = "test", !.signals = @ + 1]
             ELSE [os EXCEPT !.cl[p] = Ended(@), !.handles[p] = 0, !.signals = @ + 1]
    /\ UNCHANGED notOs

\* cleanup_shared_memory: if (g_auto_cleanup_enabled && g_shm_name_to_cleanup[0] != 0)
CleanupTest(p) ==
    /\ os.cl[p].pos = "test"
    /\ os' = IF os.cl[p].enabled /\ os.cl[p].name # ""
             THEN [os EXCEPT !.cl[p].pos = "unlink"]
             ELSE [os EXCEPT !.cl[p] = Ended(@), !.handles[p] = 0]
    /\ UNCHANGED notOs

\* cleanup_shared_memory: shm_unlink(g_shm_name_to_cleanup)
CleanupUnlink(p) ==
    /\ os.cl[p].pos = "unlink"
    /\ os' = [os EXCEPT !.names = @ \ {os.cl[p].name},
                        !.cl[p].unlinks = @ + 1,
                        !.cl[p].pos = "clear"]
    /\ UNCHANGED notOs

\* cleanup_shared_memory: g_shm_name_to_cleanup[0] = 0, and the process ends
\* (the rest of exit(), or _exit in signal_handler)
CleanupClear(p) ==
    /\ os.cl[p].pos = "clear"
    /\ os' = [os EXCEPT !.cl[p] = Ended([@ EXCEPT !.name = ""]), !.handles[p] = 0]
    /\ UNCHANGED notOs

(***************************************************************************)
(* Specifications.                                                         *)
(***************************************************************************)
WriterStep(w) ==
    \/ \E call \in InsertCalls : InsertLock(w, call)
    \/ InsertGen1(w)
    \/ \E stage \in {"key", "val"} : AllocLoad(w, stage)
    \/ \E stage \in {"key", "val"} : AllocCas(w, stage)
    \/ InsertCopyKey(w)
    \/ InsertCopyVal(w)
    \/ InsertAllocNode(w)
    \/ InsertWriteNode(w)
    \/ InsertLoadHead(w)
    \/ InsertCas(w)
    \/ InsertRollback(w)
    \/ InsertGen2(w)
    \/ InsertUnlock(w)

\* the insert skeleton as shm_insert_object runs it on a segment with room
ObjectWriterStep(w) ==
    \/ InsertGen1(w)
    \/ \E stage \in {"key", "val"} : AllocLoad(w, stage)
    \/ \E stage \in {"key", "val"} : AllocCas(w, stage)
    \/ InsertCopyKey(w)
    \/ InsertCopyVal(w)
    \/ InsertAllocNode(w)
    \/ InsertWriteNode(w)
    \/ InsertLoadHead(w)
    \/ InsertCas(w)
    \/ InsertGen2(w)
    \/ InsertUnlock(w)

ReaderStep(r) ==
    \/ \E call \in LookupCalls : LookupStart(r, call)
    \/ LookupHead(r)
    \/ LookupVisit(r)
    \/ LookupMiss(r)
    \/ LookupFound(r)
    \/ LookupG2(r)
    \/ LookupReturn(r)

Next ==
    \/ \E w \in Writers : WriterStep(w)
    \/ \E r \in Readers : ReaderStep(r)

\* executions without crashes
Spec == Init /\ [][Next]_vars

NextCrash ==
    \/ Next
    \/ \E w \in Writers : Crash(w)

\* executions in which writer processes may die inside an insert
SpecCrash == InitCrash /\ [][NextCrash]_vars

NextOpen ==
    \/ Next
    \/ \E p \in Procs, call \in CreateCalls : ShmCreate(p, call)

\* executions in which processes call shm_create on the existing name
SpecOpen == InitOpen /\ [][NextOpen]_vars

NextEnc ==
    \/ \E values \in SetInputs : EncInsertIntSet(values)
    \/ \E kind \in DictKinds, pairs \in DictInputs : EncInsertDict(kind, pairs)
    \/ EncLookup
    \/ EncReturn
    \/ \E w \in Writers, fields \in ObjectInputs : EncInsertObject(w, fields)
    \/ \E w \in Writers : ObjectWriterStep(w)
    \/ EncLookupObject
    \/ \E field_name \in QueryNames : EncGetField(field_name)

\* the reader steps of shm_lookup inside shm_lookup_decrypted
DecryptedReaderStep(r) ==
    \/ LookupHead(r)
    \/ LookupVisit(r)
    \/ LookupMiss(r)
    \/ LookupFound(r)
    \/ LookupG2(r)
    \/ LookupDecrypt(r)
    \/ LookupReturn(r)

NextAuth ==
    \/ \E p \in Procs, pid \in AddPids : AddStart(p, pid)
    \/ \E p \in Procs : AddStore(p)
    \/ \E p \in Procs : AddInc(p)
    \/ \E r \in Readers : CheckOwner(r)
    \/ \E r \in Readers : CheckAuthorized(r)
    \/ \E r \in Readers : GetStats(r)
    \/ \E p \in Procs : SecReturn(p)
    \/ \E p \in Procs, value \in PlainValues : InsertEncrypted(p, value)
    \/ \E w \in Writers : ObjectWriterStep(w)
    \/ \E r \in Readers : LookupDecrypted(r)
    \/ \E r \in Readers : DecryptedReaderStep(r)

\* the lengths the owner may have brought the list to before the calls modelled
AuthCounts == { 1, MAX_AUTH_PIDS - 1, MAX_AUTH_PIDS }

InitAuth ==
    /\ InitCore([inserts |-> MaxAuthInserts, lookups |-> MaxAuthLookups, crashes |-> 0,
                 opens |-> 0, adds |-> MaxAdds])
    /\ \E count \in AuthCounts, u2 \in {OWNER_UID, OTHER_UID}, u3 \in {OWNER_UID, OTHER_UID} :
           InitSec(count, [p \in Procs |-> IF p = "w1" THEN OWNER_UID
                                            ELSE IF p = "w2" THEN u2 ELSE u3])

\* permission calls, encrypted inserts and decrypting lookups by owners and
\* other processes
SpecAuth == InitAuth /\ [][NextAuth]_vars

\* the lengths passed to alloc_payload in SpecAlloc
AllocLens == {0, 1, 8, 13, 4080, MAX_VAL_LEN, MAX_VAL_LEN + 1}

\* alloc_payload(s, len) called by a process on its own, without the mutex
AllocCall(w, len) ==
    /\ wpc[w] = "idle"
    /\ Len(hist.allocs) + Cardinality({v \in Writers : wpc[v] # "idle"}) < MaxAllocs
    /\ wl' = [wl EXCEPT ![w] = [IdleW EXCEPT !.key = Run(len, 0)]]
    /\ wpc' = [wpc EXCEPT ![w] = "key_load"]
    /\ UNCHANGED <<segment, rpc, rl, hist, lastOK, budget>>
    /\ UNCHANGED aux

\* alloc_payload returns: the offset, or UINT64_MAX
AllocReturn(w) ==
    /\ wpc[w] = "val_load"
    /\ hist' = [hist EXCEPT !.allocs = Append(@, [len |-> wl[w].key.len,
                                                  off |-> wl[w].key_off])]
    /\ wl' = [wl EXCEPT ![w] = IdleW]
    /\ wpc' = [wpc EXCEPT ![w] = "idle"]
    /\ UNCHANGED <<segment, rpc, rl, lastOK, budget>>
    /\ UNCHANGED aux

NextAlloc ==
    \/ \E w \in Writers, len \in AllocLens : AllocCall(w, len)
    \/ \E w \in Writers : AllocLoad(w, "key")
    \/ \E w \in Writers : AllocCas(w, "key")
    \/ \E w \in Writers : AllocReturn(w)

InitAlloc ==
    InitWith([inserts |-> 0, lookups |-> 0, crashes |-> 0, opens |-> 0])

\* concurrent calls of alloc_payload
SpecAlloc == InitAlloc /\ [][NextAlloc]_vars

\* the steps of an insert that holds the mutex
HolderStep(w) == ObjectWriterStep(w) \/ InsertRollback(w)

NextLive == \E w \in Writers : WriterStep(w)

\* inserts of short values under keys of both buckets
ChainCalls ==
    { [key |-> k, tag |-> SHM_TYPE_UNKNOWN, val |-> Run(8, 1)] : k \in {KeyA, KeyB, KeyC} }

NextChains ==
    \/ \E w \in Writers, call \in ChainCalls : InsertLock(w, call)
    \/ \E w \in Writers : HolderStep(w)
    \/ \E w \in Writers : Crash(w)

InitChains ==
    InitWith([inserts |-> MaxChainInserts, lookups |-> 0, crashes |-> MaxCrashes, opens |-> 0])

\* inserts that fill both bucket chains, with writer deaths
SpecChains == InitChains /\ [][NextChains]_vars

InitLive ==
    InitWith([inserts |-> MaxLiveInserts, lookups |-> 0, crashes |-> 0, opens |-> 0])

\* crash-free inserts: a process that holds the mutex keeps running, and the
\* mutex is fair (a process that calls pthread_mutex_lock again and again
\* while the mutex is released again and again gets it)
SpecLive ==
    /\ InitLive
    /\ [][NextLive]_vars
    /\ \A w \in Writers : WF_vars(HolderStep(w))
    /\ \A w \in Writers : SF_vars(\E call \in InsertCalls : InsertLock(w, call))

NextReinit ==
    \/ \E w \in Writers : WriterStep(w)
    \/ \E p \in Procs, call \in CreateCalls : ShmCreate(p, call)

InitReinit ==
    InitWith([inserts |-> MaxReinitInserts, lookups |-> 0, crashes |-> 0, opens |-> MaxOpens])

\* two inserting processes and one shm_create on the existing name
SpecReinit == InitReinit /\ [][NextReinit]_vars

\* every call that only reads the segment, next to the inserts
NextRead ==
    \/ Next
    \/ \E r \in Readers : CheckOwner(r)
    \/ \E r \in Readers : CheckAuthorized(r)
    \/ \E r \in Readers : GetStats(r)
    \/ \E r \in Readers : SecReturn(r)
    \/ \E r \in Readers : LookupDecrypted(r)
    \/ \E r \in Readers : LookupDecrypt(r)

InitRead ==
    /\ InitCore([inserts |-> MaxReadInserts, lookups |-> MaxLookups, crashes |-> 0,
                 opens |-> 0])
    /\ \E u \in {OWNER_UID, OTHER_UID} :
           InitSec(1, [p \in Procs |-> IF p \in Writers THEN OWNER_UID ELSE u])

\* inserts by the writers, every reading call by the reader
SpecRead == InitRead /\ [][NextRead]_vars

\* no insert is in progress
Quiet == \A w \in Writers : wpc[w] = "idle"

\* the processes that open, close and leave in SpecOs, and the insert made
OsProcs == {"w1", "r1"}
OsInsertCalls == { [key |-> KeyA, tag |-> SHM_TYPE_UNKNOWN, val |-> Run(8, 1)] }

\* the steps outside the segment are taken between inserts (shm_create during
\* an insert is in SpecOpen and SpecReinit)
NextOs ==
    \/ \E w \in Writers : Live(w) /\ (\E call \in OsInsertCalls : InsertLock(w, call))
    \/ \E w \in Writers : ObjectWriterStep(w)
    \/ Quiet /\ (\E p \in OsProcs, call \in CreateCalls : ShmCreate(p, call))
    \/ Quiet /\ (\E p \in OsProcs : ShmCreateOther(p))
    \/ Quiet /\ (\E p \in OsProcs : ShmClose(p))
    \/ Quiet /\ (\E p \in OsProcs, name \in {SegName, OtherName} : ShmDestroy(p, name))
    \/ Quiet /\ (\E p \in OsProcs : Exit(p))
    \/ Quiet /\ (\E p \in OsProcs : Signal(p))
    \/ Quiet /\ (\E p \in OsProcs : CleanupTest(p))
    \/ Quiet /\ (\E p \in OsProcs : CleanupUnlink(p))
    \/ Quiet /\ (\E p \in OsProcs : CleanupClear(p))

\* w1 has created the segment; SHM_AUTO_CLEANUP is set or not in each process
InitOs ==
    /\ InitSeg([inserts |-> MaxOsInserts, lookups |-> 0, crashes |-> 0, opens |-> MaxOsOpens])
    /\ InitSec(1, [p \in Procs |-> IF p \in Writers THEN OWNER_UID ELSE OTHER_UID])
    /\ \E env \in [Procs -> BOOLEAN] :
           /\ \A p \in Procs \ OsProcs : ~env[p]
           /\ os = [names |-> {SegName},
                    handles |-> [p \in Procs |-> IF p = "w1" THEN 1 ELSE 0],
                    env |-> env,
                    cl |-> [p \in Procs |-> IF p = "w1"
                                             THEN register_cleanup(NoCleanup, SegName, env[p])
                                             ELSE NoCleanup],
                    signals |-> 0]

\* the life of the segment's name: opens, closes, destroy, and processes that
\* leave by exit or by a signal
SpecOs == InitOs /\ [][NextOs]_vars

InitEnc ==
    InitWith([inserts |-> MaxObjectInserts, lookups |-> 0, crashes |-> 0, opens |-> 0])

\* set, dictionary and object inserts followed by their lookups, on a segment
\* with room
SpecEnc == InitEnc /\ [][NextEnc]_vars

(***************************************************************************)
(* shm_create on a name that does not exist yet, called by several         *)
(* processes at once, one action per system call or block of stores.       *)
(* os.cr holds each process's position in shm_create and its locals.       *)
(***************************************************************************)
\* the header of an object whose bytes are all zero (a new object after
\* ftruncate, or any object after memset)
ZeroHeader == [f \in DOMAIN NewHeader(0, 0, 0) |-> 0]

NoCreate == [pc |-> "none", legacy |-> FALSE, st |-> 0, total |-> 0, need_init |-> FALSE,
             inited |-> FALSE]

\* the calls made on the new name: the same geometry, in either mode
FirstCalls == { c \in CreateCalls : c.n_nodes = ReqNodes /\ c.payload_size = ReqPayload }

\* no process is between the memset and the last store of the init block
NoInitBlock == \A q \in Procs : os.cr[q].pc \notin {"header", "buckets", "mutex"}

\* shm_open(O_RDWR | O_CREAT | O_EXCL), and shm_open(O_RDWR) after EEXIST:
\* the first caller creates an object of size 0
CreateOpen(p, call) ==
    /\ budget.opens > 0
    /\ os.cl[p].pos = "run"
    /\ os.cr[p].pc = "none"
    /\ ProcIdle(p)
    /\ os.handles[p] < MaxHandles
    /\ budget' = [budget EXCEPT !.opens = @ - 1]
    /\ os' = [os EXCEPT !.names = @ \cup {SegName},
                        !.cr[p] = [NoCreate EXCEPT !.pc = "fstat", !.legacy = call.legacy]]
    /\ UNCHANGED <<segment, wpc, wl, rpc, rl, hist, lastOK, hdr, st_size, enc, sec>>

\* fstat(fd, &st)
CreateStat(p) ==
    /\ os.cr[p].pc = "fstat"
    /\ os' = [os EXCEPT !.cr[p].pc = "size", !.cr[p].st = st_size]
    /\ UNCHANGED notOs

\* the choice of map_total_size from st.st_size and the header found, and
\* ftruncate with need_init = true when st.st_size is smaller
CreateSize(p) ==
    /\ os.cr[p].pc = "size"
    /\ LET requested == requested_total_size(ReqBuckets, ReqNodes, ReqPayload)
           total == map_total_size(os.cr[p].legacy, os.cr[p].st, hdr, requested)
           grow == need_init(os.cr[p].legacy, os.cr[p].st, hdr, requested)
       IN  /\ st_size' = IF grow THEN total ELSE st_size
           /\ os' = [os EXCEPT !.cr[p].pc = "map", !.cr[p].total = total,
                               !.cr[p].need_init = grow]
    /\ UNCHANGED <<segment, wpc, wl, rpc, rl, hist, lastOK, budget, hdr, enc, sec>>

\* mmap, then the test need_init || hdr->magic != MAGIC
CreateMap(p) ==
    /\ os.cr[p].pc = "map"
    /\ os' = [os EXCEPT !.cr[p].pc = IF os.cr[p].need_init \/ hdr.magic # MAGIC
                                     THEN "memset" ELSE "register"]
    /\ UNCHANGED notOs

\* memset(base, 0, map_total_size): header, buckets, nodes, payload, mutex and
\* permission list become zero bytes (taken between inserts)
CreateMemset(p) ==
    /\ os.cr[p].pc = "memset"
    /\ Quiet
    /\ hdr' = ZeroHeader
    /\ generation' = 0
    /\ next_free_node_index' = 0
    /\ payload_alloc_off' = 0
    /\ writer_mutex' = "free"
    /\ buckets' = [b \in 0..(ReqBuckets - 1) |-> 0]
    /\ nodes' = [i \in 0..(ReqNodes - 1) |-> ZeroNode]
    /\ payload' = <<>>
    /\ owner_uid' = 0
    /\ auth_pid_count' = 0
    /\ auth_pids' = [i \in 0..(MAX_AUTH_PIDS - 1) |-> 0]
    /\ authorized' = [asked |-> {}, added |-> {}]
    /\ os' = [os EXCEPT !.cr[p].pc = "header"]
    /\ UNCHANGED <<wpc, wl, rpc, rl, hist, lastOK, budget, st_size, enc, uid, spc, sl>>

\* hdr->magic = MAGIC ... hdr->checksum = 0
CreateHeader(p) ==
    /\ os.cr[p].pc = "header"
    /\ hdr' = NewHeader(ReqBuckets, ReqNodes, os.cr[p].total)
    /\ next_free_node_index' = 0
    /\ payload_alloc_off' = 0
    /\ generation' = 0
    /\ os' = [os EXCEPT !.cr[p].pc = "buckets"]
    /\ UNCHANGED <<writer_mutex, buckets, nodes, payload, wpc, wl, rpc, rl, hist, lastOK,
                   budget, st_size, enc, sec>>

\* for (i < req_buckets) buckets_ptr[i] = EMPTY_INDEX
CreateBuckets(p) ==
    /\ os.cr[p].pc = "buckets"
    /\ buckets' = [b \in 0..(ReqBuckets - 1) |-> EMPTY_INDEX]
    /\ os' = [os EXCEPT !.cr[p].pc = "mutex"]
    /\ UNCHANGED <<generation, next_free_node_index, payload_alloc_off, writer_mutex,
                   nodes, payload, wpc, wl, rpc, rl, hist, lastOK, budget, hdr, st_size,
                   enc, sec>>

\* pthread_mutex_init and the security fields: the init block is finished
CreateMutex(p) ==
    /\ os.cr[p].pc = "mutex"
    /\ writer_mutex' = "free"
    /\ owner_uid' = uid[p]
    /\ auth_pid_count' = 1
    /\ auth_pids' = [i \in 0..(MAX_AUTH_PIDS - 1) |-> IF i = 0 THEN getpid(p) ELSE 0]
    /\ authorized' = [asked |-> {getpid(p)}, added |-> {getpid(p)}]
    /\ os' = [os EXCEPT !.cr[p].pc = "register", !.cr[p].inited = TRUE]
    /\ UNCHANGED <<contents, wpc, wl, rpc, rl, hist, lastOK, budget, hdr, st_size, enc,
                   uid, spc, sl>>

\* register_cleanup(name); return the handle
CreateReturn(p) ==
    /\ os.cr[p].pc = "register"
    /\ os' = [os EXCEPT !.handles[p] = @ + 1,
                        !.cl[p] = register_cleanup(@, SegName, os.env[p]),
                        !.cr[p].pc = "none"]
    /\ UNCHANGED notOs

\* an insert through a handle shm_create returned; inserts run between init
\* blocks, on a header that is valid
CreateInsert(w, call) ==
    /\ Live(w)
    /\ os.cr[w].pc = "none"
    /\ hdr.magic = MAGIC
    /\ NoInitBlock
    /\ InsertLock(w, call)

NextCreate ==
    \/ \E p \in Writers, call \in FirstCalls : CreateOpen(p, call)
    \/ \E p \in Writers : CreateStat(p)
    \/ \E p \in Writers : CreateSize(p)
    \/ \E p \in Writers : CreateMap(p)
    \/ \E p \in Writers : CreateMemset(p)
    \/ \E p \in Writers : CreateHeader(p)
    \/ \E p \in Writers : CreateBuckets(p)
    \/ \E p \in Writers : CreateMutex(p)
    \/ \E p \in Writers : CreateReturn(p)
    \/ \E w \in Writers, call \in OsInsertCalls : CreateInsert(w, call)
    \/ NoInitBlock /\ (\E w \in Writers : HolderStep(w))

\* the name does not exist and no process has a handle
InitCreate ==
    /\ generation = 0
    /\ next_free_node_index = 0
    /\ payload_alloc_off = 0
    /\ writer_mutex = "free"
    /\ hdr = ZeroHeader
    /\ st_size = 0
    /\ buckets = [b \in 0..(ReqBuckets - 1) |-> 0]
    /\ nodes = [i \in 0..(ReqNodes - 1) |-> ZeroNode]
    /\ payload = <<>>
    /\ wpc = [w \in Writers |-> "idle"]
    /\ wl = [w \in Writers |-> IdleW]
    /\ rpc = [r \in Readers |-> "idle"]
    /\ rl = [r \in Readers |-> IdleR]
    /\ hist = [written |-> {}, ok |-> {}, encrypted |-> {}, allocs |-> <<>>, latest |-> {},
               opened |-> [legacy |-> FALSE, req_payload |-> ReqPayload,
                           map_total_size |-> 0, init |-> FALSE]]
    /\ lastOK = [nodes_used |-> 0, payload_used |-> 0, heads |-> buckets, count |-> 0]
    /\ enc = EncIdle
    /\ budget = [inserts |-> MaxCreateInserts, lookups |-> 0, crashes |-> 0,
                 opens |-> MaxCreates]
    /\ owner_uid = 0
    /\ auth_pid_count = 0
    /\ auth_pids = [i \in 0..(MAX_AUTH_PIDS - 1) |-> 0]
    /\ uid = [p \in Procs |-> IF p \in Writers THEN OWNER_UID ELSE OTHER_UID]
    /\ spc = [p \in Procs |-> "idle"]
    /\ sl = [p \in Procs |-> IdleS]
    /\ authorized = [asked |-> {}, added |-> {}]
    /\ os = [names |-> {},
             handles |-> [p \in Procs |-> 0],
             env |-> [p \in Procs |-> FALSE],
             cl |-> [p \in Procs |-> NoCleanup],
             signals |-> 0,
             cr |-> [p \in Procs |-> NoCreate]]

SpecCreate == InitCreate /\ [][NextCreate]_vars

(***************************************************************************)
(* Definitions used to state the claims.                                   *)
(***************************************************************************)
Done(r) == rpc[r] = "done"

\* the node indices on the chain that starts at idx
RECURSIVE ChainFrom(_, _)
ChainFrom(idx, fuel) ==
    IF idx = EMPTY_INDEX THEN {}
    ELSE IF fuel = 0 \/ idx \notin DOMAIN nodes THEN {idx}
    ELSE {idx} \cup ChainFrom(nodes[idx].next_index, fuel - 1)

\* every node index a reader can reach from some bucket head
Reachable == UNION { ChainFrom(buckets[b], n_nodes + 1) : b \in DOMAIN buckets }

\* the writer, if any, that has taken node slot idx and not yet published it
BeingWritten(idx) ==
    \E w \in Writers : wpc[w] \in {"write_node", "load_head", "cas"} /\ wl[w].node_idx = idx

\* slot idx holds a complete record: all fields stored, key and value bytes copied
FullyWritten(idx) ==
    /\ idx \in DOMAIN nodes
    /\ ~BeingWritten(idx)
    /\ LET n == nodes[idx]
       IN  /\ n.flags = 1 /\ n.version = 1
           /\ n.key_len > 0 /\ n.val_len > 0
           /\ n.key_off \in DOMAIN payload /\ payload[n.key_off].len = n.key_len
           /\ n.val_off \in DOMAIN payload /\ payload[n.val_off].len = n.val_len
           /\ <<payload[n.key_off], payload[n.val_off]>> \in hist.written
           /\ n.next_index = EMPTY_INDEX \/ n.next_index \in DOMAIN nodes

\* C1: a lookup that returns OK returns the value bytes that one insert of the
\* same key copied in completely; for shm_lookup the returned pointer still
\* addresses exactly those bytes when the call returns.
C1_LookupOkReturnsWrittenValue ==
    \A r \in Readers :
        (Done(r) /\ rl[r].err = SHM_OK /\ rl[r].kind # "get_type") =>
            /\ <<rl[r].key, rl[r].out>> \in hist.written
            /\ rl[r].kind = "lookup" =>
                   LET n == NodeAt(rl[r].idx)
                   IN  ReadBytes(payload, n.val_off, n.val_len) = rl[r].out

\* a lookup of "a" returned OK with one of the two values written for "a",
\* while the chain of its bucket also holds "c"
C1_Witness ==
    \E r \in Readers :
        /\ Done(r) /\ rl[r].err = SHM_OK /\ rl[r].kind = "lookup"
        /\ rl[r].key = KeyA /\ rl[r].out = Run(8, 2)
        /\ <<KeyA, Run(8, 1)>> \in hist.written
        /\ <<KeyC, Run(8, 3)>> \in hist.written

\* C2: every node index reachable from a bucket head, and every node a reader
\* is visiting, is a slot whose key bytes, value bytes and fields are all
\* stored and that no writer is still filling.
C2_ReachableNodesFullyWritten ==
    /\ \A idx \in Reachable : FullyWritten(idx)
    /\ \A r \in Readers :
           (rpc[r] \in {"walk", "found", "g2"} /\ rl[r].idx # EMPTY_INDEX) =>
               FullyWritten(rl[r].idx)

\* a reader stands on a published node while a writer has filled another
\* slot and not yet installed it as a bucket head
C2_Witness ==
    \E r \in Readers, w \in Writers :
        /\ rpc[r] = "walk" /\ rl[r].idx \in Reachable
        /\ wpc[w] = "cas" /\ wl[w].node_idx \in DOMAIN nodes
        /\ wl[w].node_idx \notin Reachable
        /\ nodes[wl[w].node_idx].flags = 1

\* the generation increments an insert makes between its two increments
BetweenBumps(w) ==
    wpc[w] \in {"key_load", "key_cas", "val_load", "val_cas", "copy_key", "copy_val",
                "alloc_node", "write_node", "load_head", "cas", "rollback", "gen2"}

\* C3: an insert that holds the mutex has incremented generation exactly twice
\* when it unlocks, on every path; generation is even whenever the mutex is
\* free, and odd exactly while one writer is between its two increments.
C3_TwoIncrementsPerInsert ==
    /\ \A w \in Writers :
           /\ wpc[w] = "unlock" => generation = wl[w].gen0 + 2
           /\ wpc[w] = "gen1" => generation = wl[w].gen0
           /\ BetweenBumps(w) => generation = wl[w].gen0 + 1
    /\ writer_mutex = "free" => generation % 2 = 0
    /\ generation % 2 = 1 <=> Cardinality({w \in Writers : BetweenBumps(w)}) = 1

\* an insert that found the node array full is about to unlock
C3_Witness ==
    \E w \in Writers :
        /\ wpc[w] = "unlock" /\ wl[w].err = SHM_ERR_NO_SPACE
        /\ wl[w].node_idx = EMPTY_INDEX /\ wl[w].val_off # ALLOC_FAIL
        /\ generation = wl[w].gen0 + 2

\* the lookup loaded the generation twice and the two samples are equal
EqualSamples(r) == Done(r) /\ rl[r].sampled /\ rl[r].g1 = rl[r].g2

\* C4 (as claimed): a lookup whose two generation samples are the same even
\* value had no bucket-head CAS between the samples.
C4_EvenSamplesNoPublish ==
    \A r \in Readers :
        (EqualSamples(r) /\ rl[r].g1 % 2 = 0) => ~rl[r].seenCas

\* C5 (as claimed): a lookup whose two generation samples are equal, even or
\* odd, had no store to a bucket head, a node record or the payload between
\* the samples.
C5_EqualSamplesNoWrite ==
    \A r \in Readers : EqualSamples(r) => ~rl[r].seenMod

\* C6 (as claimed): a lookup returns CONCURRENT_MOD only if an insert
\* published its node (bucket-head CAS) between the lookup's two samples.
C6_ConcurrentModMeansPublish ==
    \A r \in Readers :
        (Done(r) /\ rl[r].err = SHM_ERR_CONCURRENT_MOD) => rl[r].seenCas

\* C6 (amended): a lookup returns CONCURRENT_MOD only if some insert attempt,
\* successful, failed or still in flight, incremented generation between the
\* lookup's two samples.
C6_ConcurrentModMeansIncrement ==
    \A r \in Readers :
        (Done(r) /\ rl[r].err = SHM_ERR_CONCURRENT_MOD) =>
            /\ rl[r].sampled /\ rl[r].seenBump
            /\ rl[r].g2 > rl[r].g1

\* a lookup returned CONCURRENT_MOD although no node was published between
\* its samples
C6_Witness ==
    \E r \in Readers :
        /\ Done(r) /\ rl[r].err = SHM_ERR_CONCURRENT_MOD
        /\ ~rl[r].seenCas /\ rl[r].seenBump

\* C7 (as claimed): a lookup of k (generic, or typed with the type of the
\* insert) started after an insert of k returned OK returns OK or
\* CONCURRENT_MOD.
C7_FoundAfterInsertOkOrMod ==
    \A r \in Readers :
        (Done(r) /\ rl[r].okAtStart) =>
            rl[r].err \in {SHM_OK, SHM_ERR_CONCURRENT_MOD}

\* C7 (amended): such a lookup never returns NOT_FOUND; it returns OK,
\* CONCURRENT_MOD, or, for a typed lookup that found a newer node of the same
\* key carrying another type tag, TYPE_MISMATCH.
C7_NeverNotFoundAfterInsert ==
    \A r \in Readers :
        (Done(r) /\ rl[r].okAtStart) =>
            /\ rl[r].err \in {SHM_OK, SHM_ERR_CONCURRENT_MOD, SHM_ERR_TYPE_MISMATCH}
            /\ rl[r].err = SHM_ERR_TYPE_MISMATCH =>
                   /\ rl[r].kind = "int_scalar"
                   /\ NodeMatches(NodeAt(rl[r].idx), rl[r].key)
                   /\ NodeAt(rl[r].idx).value_type # SHM_TYPE_INT_SCALAR

\* a typed lookup of a key inserted with its type, then inserted again with
\* another type, returned TYPE_MISMATCH
C7_Witness ==
    \E r \in Readers :
        /\ Done(r) /\ rl[r].okAtStart /\ rl[r].kind = "int_scalar"
        /\ rl[r].err = SHM_ERR_TYPE_MISMATCH

\* C8 (as claimed): for every kind of lookup, a chain walk that ends without
\* a match returns NOT_FOUND only if generation did not change between the
\* first sample and the end of the walk (otherwise CONCURRENT_MOD).
C8_MissComparesGeneration ==
    \A r \in Readers :
        (Done(r) /\ rl[r].err = SHM_ERR_NOT_FOUND) => ~rl[r].seenBump

\* C9 (as claimed): when an insert fails with NO_SPACE, both cursors and all
\* bucket heads are as the previous successful insert left them.
C9_FailedInsertLeavesCursors ==
    \A w \in Writers :
        (wpc[w] = "unlock" /\ wl[w].err = SHM_ERR_NO_SPACE) =>
            /\ next_free_node_index = lastOK.nodes_used
            /\ payload_alloc_off = lastOK.payload_used
            /\ buckets = lastOK.heads

\* C10 (as claimed): next_free_node_index never exceeds the node capacity.
C10_NodeCursorWithinCapacity == next_free_node_index <= n_nodes

\* the entry (key, tag, value) of a successful insert is stored in a node
\* that lookups can reach
Retrievable(e) ==
    \E idx \in Reachable :
        /\ NodeMatches(NodeAt(idx), e[1])
        /\ NodeAt(idx).value_type = e[2]
        /\ ReadBytes(payload, NodeAt(idx).val_off, NodeAt(idx).val_len) = e[3]

\* C11: an insert called after n_nodes inserts have returned OK returns
\* NO_SPACE, never stores or publishes a node, and leaves every bucket head as
\* it was; every entry inserted before stays in a reachable node with its value.
C11_FullNodeArrayRejects ==
    /\ \A w \in Writers :
           (InWriteSection(w) /\ wl[w].okBefore = n_nodes) =>
               /\ buckets = lastOK.heads
               /\ wpc[w] \notin {"write_node", "load_head", "cas", "gen2"}
               /\ wpc[w] = "unlock" => wl[w].err = SHM_ERR_NO_SPACE
    /\ lastOK.count = n_nodes => \A e \in hist.ok : Retrievable(e)

\* with payload space left, an insert into the full node array found no slot
\* and is about to return NO_SPACE
C11_Witness ==
    \E w \in Writers :
        /\ wpc[w] = "unlock" /\ wl[w].okBefore = n_nodes
        /\ wl[w].err = SHM_ERR_NO_SPACE /\ wl[w].node_idx = EMPTY_INDEX
        /\ wl[w].val_off # ALLOC_FAIL
        /\ payload_alloc_off < payload_capacity

\* C12: when an insert returns OK, next_free_node_index has grown by exactly
\* 1, payload_alloc_off by exactly align8(key_len) + align8(value_len), and
\* generation by exactly 2 since the insert took the mutex.
C12_SuccessfulInsertAdvances ==
    \A w \in Writers :
        (wpc[w] = "unlock" /\ wl[w].err = SHM_OK) =>
            /\ next_free_node_index = wl[w].nfi0 + 1
            /\ payload_alloc_off =
                   wl[w].pay0 + align_up(wl[w].key.len, 8) + align_up(wl[w].val.len, 8)
            /\ generation = wl[w].gen0 + 2

\* the second successful insert, of a 1-byte key and an 8-byte value, is about
\* to return OK
C12_Witness ==
    \E w \in Writers :
        /\ wpc[w] = "unlock" /\ wl[w].err = SHM_OK
        /\ wl[w].nfi0 = 1 /\ wl[w].pay0 > 0
        /\ wl[w].key.len = 1 /\ wl[w].val.len = 8
        /\ payload_alloc_off = wl[w].pay0 + 16

\* C13 (as claimed): payload_alloc_off never exceeds the payload capacity and
\* no step of any process decreases it.
C13_PayloadCursorMonotonic ==
    [][/\ payload_alloc_off' <= payload_capacity'
       /\ payload_alloc_off' >= payload_alloc_off]_vars

\* C16 (as claimed): every entry whose insert returned OK stays in a reachable
\* node with its value, whatever inserts and shm_create calls follow.
C16_EntriesPersist == \A e \in hist.ok : Retrievable(e)

\* the step is a shm_create call
IsCreateStep == budget'.opens < budget.opens

\* C17: a shm_create call in default mode on a segment with a valid header
\* maps the stored total_size, whatever geometry the caller passes, and
\* changes no header field, bucket, node or payload byte.
C17_DefaultReopenKeepsSegment ==
    [][(IsCreateStep /\ ~hist'.opened.legacy /\ ExistingTotal(st_size, hdr) # 0) =>
           /\ hist'.opened.map_total_size = hdr.total_size
           /\ ~hist'.opened.init
           /\ segment' = segment /\ hdr' = hdr /\ st_size' = st_size]_vars

\* a default-mode shm_create that asked for a larger payload area has mapped
\* the stored size of a segment that holds an entry
C17_Witness ==
    /\ budget.opens < MaxOpens
    /\ ~hist.opened.legacy /\ hist.opened.req_payload = 2 * ReqPayload
    /\ hist.opened.map_total_size = hdr.total_size
    /\ hist.ok # {} /\ payload_alloc_off > 0

\* the lookup found a node for its key (the first match of the chain walk,
\* which is the most recently published node of that key)
FoundNode(r) == Done(r) /\ rl[r].err # SHM_ERR_NOT_FOUND /\ rl[r].idx # EMPTY_INDEX

\* the (key, tag, value) entries of the inserts that returned OK or are in
\* progress
Inserted ==
    hist.ok \cup {<<wl[w].key, wl[w].tag, wl[w].val>> : w \in {x \in Writers : InWriteSection(x)}}

\* C14: a typed lookup returns OK only for a node whose type tag is the type
\* of that lookup.
C14_TypedOkMeansTag ==
    \A r \in Readers :
        (Done(r) /\ rl[r].kind = "int_scalar" /\ rl[r].err = SHM_OK) =>
            /\ NodeAt(rl[r].idx).value_type = SHM_TYPE_INT_SCALAR
            /\ <<rl[r].key, SHM_TYPE_INT_SCALAR, rl[r].out>> \in Inserted

\* shm_lookup_int_scalar returned OK for "a" although "a" was first inserted
\* with tag UNKNOWN
C14_Witness ==
    \E r \in Readers :
        /\ Done(r) /\ rl[r].kind = "int_scalar" /\ rl[r].err = SHM_OK
        /\ rl[r].key = KeyA /\ rl[r].out = Run(8, 2)
        /\ <<KeyA, SHM_TYPE_UNKNOWN, Run(8, 1)>> \in hist.ok

\* C15 (as claimed): when the node found for k carries tag U, a typed lookup
\* of another type returns TYPE_MISMATCH and get_value_type returns OK with U;
\* a key written by the generic insert reports UNKNOWN.
C15_TagReportedOk ==
    \A r \in Readers :
        FoundNode(r) =>
            LET U == NodeAt(rl[r].idx).value_type
            IN  /\ (rl[r].kind = "int_scalar" /\ U # SHM_TYPE_INT_SCALAR) =>
                       rl[r].err = SHM_ERR_TYPE_MISMATCH
                /\ rl[r].kind = "get_type" => (rl[r].err = SHM_OK /\ rl[r].out_type = U)

\* C15 (amended): as above, except that get_value_type stores U and returns
\* OK only if generation did not change during the call, and CONCURRENT_MOD
\* otherwise; every node stored by the generic insert carries UNKNOWN.
C15_TagReported ==
    /\ \A r \in Readers :
           FoundNode(r) =>
               LET U == NodeAt(rl[r].idx).value_type
               IN  /\ (rl[r].kind = "int_scalar" /\ U # SHM_TYPE_INT_SCALAR) =>
                          rl[r].err = SHM_ERR_TYPE_MISMATCH
                   /\ rl[r].kind = "get_type" =>
                          /\ rl[r].out_type = U
                          /\ rl[r].err = HitResult(rl[r].g1, rl[r].g2)
                          /\ \E e \in Inserted : e[1] = rl[r].key /\ e[2] = U
    /\ \A idx \in Reachable :
           \E e \in Inserted :
               /\ NodeMatches(NodeAt(idx), e[1])
               /\ NodeAt(idx).value_type = e[2]
               /\ ReadBytes(payload, NodeAt(idx).val_off, NodeAt(idx).val_len) = e[3]

\* get_value_type("a") reported INT_SCALAR but returned CONCURRENT_MOD
C15_Witness ==
    \E r \in Readers :
        /\ Done(r) /\ rl[r].kind = "get_type" /\ rl[r].idx # EMPTY_INDEX
        /\ rl[r].out_type = SHM_TYPE_INT_SCALAR
        /\ rl[r].err = SHM_ERR_CONCURRENT_MOD

\* C18 (as claimed): an insert called with a key or a value of length 0
\* returns INVALID_PARAM.
C18_ZeroLengthInvalidParam ==
    \A w \in Writers :
        (wpc[w] = "unlock" /\ (wl[w].key.len = 0 \/ wl[w].val.len = 0)) =>
            wl[w].err = SHM_ERR_INVALID_PARAM

\* two entries of the input have keys of identical bytes
HasDuplicateKeys(pairs) ==
    \E i, j \in 1..Len(pairs) : i # j /\ pairs[i].k = pairs[j].k

\* C19 (as claimed): every dictionary insert whose input holds two keys of
\* identical bytes returns INVALID_PARAM and stores nothing.
C19_DuplicateKeysRejected ==
    (enc.pc # "idle" /\ enc.op \in DictKinds /\ HasDuplicateKeys(enc.input)) =>
        (enc.err = SHM_ERR_INVALID_PARAM /\ ~enc.node)

\* the elements of a sequence
Range(seq) == { seq[i] : i \in 1..Len(seq) }

\* C20 (as claimed): a decoded set lists exactly the distinct input elements
\* in strictly increasing order; a decoded dictionary lists its keys in
\* strictly increasing byte order, each with the value given for it.
C20_DecodedSorted ==
    enc.pc = "decoded" =>
        IF enc.op = "int_set"
        THEN /\ Range(enc.out) = Range(enc.input)
             /\ \A i \in 1..(Len(enc.out) - 1) : enc.out[i] < enc.out[i + 1]
        ELSE /\ Range(enc.out) = Range(enc.input)
             /\ Len(enc.out) = Len(enc.input)
             /\ \A i \in 1..(Len(enc.out) - 1) : bytes_less(enc.out[i].k, enc.out[i + 1].k)

\* what a scan of the stored fields from the first to the last reports for a name
SequentialScan(view, field_name) ==
    IF \E i \in 0..(view.count - 1) : ViewName(view, i) = field_name
    THEN FieldAt(view, CHOOSE i \in 0..(view.count - 1) :
                           /\ ViewName(view, i) = field_name
                           /\ \A j \in 0..(i - 1) : ViewName(view, j) # field_name)
    ELSE NoField

\* C21: for every stored OBJECT and every queried name, shm_object_get_field
\* reports what a sequential scan of the fields reports: the type tag and the
\* payload of the field given under that name, NOT_FOUND for an absent name.
C21_FieldSearchIsScan ==
    (enc.pc = "field" /\ enc.op = "object") =>
        /\ enc.out[2] = SequentialScan(enc.stored, enc.out[1])
        /\ \A i \in 1..Len(enc.input) :
               enc.input[i].name = enc.out[1] =>
                   enc.out[2] = [err |-> SHM_OK, type |-> enc.input[i].type,
                                 payload |-> enc.input[i].payload]
        /\ (\A i \in 1..Len(enc.input) : enc.input[i].name # enc.out[1]) =>
               enc.out[2].err = SHM_ERR_NOT_FOUND

\* the last of three fields is found, and its name was given first
C21_Witness ==
    /\ enc.pc = "field" /\ enc.op = "object"
    /\ enc.stored.count = 3
    /\ enc.out[1] = <<98>>
    /\ enc.input[1].name = <<98>>
    /\ enc.out[2].err = SHM_OK
    /\ enc.out[2].type = SHM_TYPE_INT_SCALAR

\* two fields of the input have names of identical bytes
HasDuplicateNames(fields) ==
    \E i, j \in 1..Len(fields) : i # j /\ fields[i].name = fields[j].name

\* C22: shm_insert_object with two fields of the same name returns
\* INVALID_PARAM and leaves the writer mutex, generation, both cursors and the
\* bucket heads as they were; with distinct names it stores the given fields
\* in ascending bytewise order of their names.
C22_ObjectFieldsSortedOrRejected ==
    [][(enc.pc = "idle" /\ enc'.op = "object") =>
          IF HasDuplicateNames(enc'.input)
          THEN /\ enc'.err = SHM_ERR_INVALID_PARAM
               /\ ~enc'.node
               /\ UNCHANGED <<writer_mutex, generation, next_free_node_index,
                              payload_alloc_off, buckets, nodes, payload, wpc>>
          ELSE /\ enc'.err = SHM_OK
               /\ enc'.stored.count = Len(enc'.input)
               /\ \A i \in 0..(enc'.stored.count - 2) :
                      bytes_less(ViewName(enc'.stored, i), ViewName(enc'.stored, i + 1))
               /\ \A i \in 1..Len(enc'.input) :
                      \E j \in 0..(enc'.stored.count - 1) :
                          /\ ViewName(enc'.stored, j) = enc'.input[i].name
                          /\ FieldAt(enc'.stored, j).type = enc'.input[i].type
                          /\ FieldAt(enc'.stored, j).payload = enc'.input[i].payload]_vars

\* an insert whose first and third field share a name was rejected while the
\* segment was still empty and unlocked
C22_Witness ==
    /\ enc.pc = "stored" /\ enc.op = "object"
    /\ Len(enc.input) = 3
    /\ enc.input[1].name = enc.input[3].name
    /\ enc.input[1].name # enc.input[2].name
    /\ enc.err = SHM_ERR_INVALID_PARAM
    /\ generation = 0 /\ writer_mutex = "free"

\* the entries of the authorized list: the indices below the count
AuthList == { auth_pids[i] : i \in 0..(Min(auth_pid_count, MAX_AUTH_PIDS) - 1) }

\* C23 (as claimed): the authorized-PID count never exceeds 32 and every index
\* below the count holds a PID that was authorized, the creator's at index 0,
\* also when several owner processes add PIDs concurrently.
C23_AuthListBounded ==
    /\ auth_pid_count <= MAX_AUTH_PIDS
    /\ auth_pids[0] = getpid("w1")
    /\ AuthList \subseteq authorized.asked

\* some process is returning from shm_add_authorized_pid with OK after its store
AddReturning(p) == spc[p] = "inc" /\ spc'[p] = "done"

\* C24 (as claimed): shm_add_authorized_pid returns PERMISSION_DENIED to a
\* non-owner, OK to an owner whose PID is already listed, NO_SPACE to an owner
\* with a new PID when 32 entries are held, each time leaving list and count
\* unchanged; otherwise it appends the PID and increases the count by 1.
C24_AddContract ==
    [][\A p \in Procs :
          /\ (spc[p] = "idle" /\ sl'[p].op = "add") =>
                /\ UNCHANGED <<auth_pid_count, auth_pids>>
                /\ uid[p] # owner_uid => (spc'[p] = "done" /\ sl'[p].err = SHM_ERR_PERMISSION_DENIED)
                /\ (uid[p] = owner_uid /\ sl'[p].pid \in AuthList) =>
                       (spc'[p] = "done" /\ sl'[p].err = SHM_OK)
                /\ (uid[p] = owner_uid /\ sl'[p].pid \notin AuthList
                      /\ auth_pid_count >= MAX_AUTH_PIDS) =>
                       (spc'[p] = "done" /\ sl'[p].err = SHM_ERR_NO_SPACE)
                /\ (uid[p] = owner_uid /\ sl'[p].pid \notin AuthList
                      /\ auth_pid_count < MAX_AUTH_PIDS) => spc'[p] = "store"
          /\ AddReturning(p) =>
                /\ sl[p].err = SHM_OK
                /\ auth_pid_count' = sl[p].auth_count + 1
                /\ auth_pids'[sl[p].auth_count] = sl[p].pid
                /\ \A i \in 0..(sl[p].auth_count - 1) : auth_pids'[i] # sl[p].pid]_vars

\* the cipher bytes of the value a node refers to
NodeValue(idx) == ReadBytes(payload, NodeAt(idx).val_off, NodeAt(idx).val_len)

\* C25: shm_insert_encrypted called by a process whose UID is not the owner
\* UID recorded at segment init returns PERMISSION_DENIED and leaves
\* generation, both cursors, the bucket heads and the mutex unchanged; every
\* encrypted entry written or published was inserted by an owner.
C25_EncryptedInsertOwnerOnly ==
    /\ [](/\ \A e \in hist.encrypted : e[3] = owner_uid
          /\ \A idx \in Reachable :
                 IsCiphertext(NodeValue(idx)) =>
                     \E e \in hist.encrypted :
                         /\ NodeMatches(NodeAt(idx), e[1])
                         /\ original_val_len(NodeValue(idx)) = e[2]
                         /\ e[3] = owner_uid)
    /\ [][\A p \in Procs :
             /\ (spc[p] = "idle" /\ sl'[p].op = "insert_encrypted") =>
                   /\ uid[p] # owner_uid
                   /\ sl'[p].err = SHM_ERR_PERMISSION_DENIED
                   /\ UNCHANGED <<generation, next_free_node_index, payload_alloc_off,
                                  buckets, nodes, payload, writer_mutex>>
             /\ (p \in Writers /\ wpc[p] = "idle" /\ wpc'[p] # "idle") => uid[p] = owner_uid]_vars

\* a non-owner writer was refused while the owner's encrypted entry is published
C25_Witness ==
    /\ spc["w2"] = "done" /\ sl["w2"].op = "insert_encrypted"
    /\ sl["w2"].err = SHM_ERR_PERMISSION_DENIED
    /\ uid["w2"] # owner_uid
    /\ \E idx \in Reachable : IsCiphertext(NodeValue(idx))

\* C26 (as claimed): shm_lookup_decrypted returns PERMISSION_DENIED, without
\* reading the entry, exactly when the caller is neither the owner nor listed
\* at the time of the call; a non-owner gets access only after an owner's
\* shm_add_authorized_pid for its PID has returned; an authorized caller is
\* told the original plaintext length.
C26_DecryptAuthorizedOnly ==
    /\ [](\A r \in Readers :
             (rpc[r] = "done" /\ rl[r].kind = "decrypted" /\ rl[r].err = SHM_OK) =>
                 \E e \in hist.encrypted : e[1] = rl[r].key /\ e[2] = rl[r].out_value_len)
    /\ [][\A r \in Readers :
             /\ (spc[r] = "idle" /\ sl'[r].op = "lookup_decrypted") =>
                   /\ sl'[r].err = SHM_ERR_PERMISSION_DENIED
                   /\ uid[r] # owner_uid /\ getpid(r) \notin AuthList
                   /\ UNCHANGED <<rpc, rl>>
             /\ (rpc[r] = "idle" /\ rl'[r].kind = "decrypted") =>
                   /\ uid[r] = owner_uid \/ getpid(r) \in AuthList
                   /\ uid[r] # owner_uid => getpid(r) \in authorized.added]_vars

\* the step is made by a call that only reads: a lookup of any kind,
\* shm_get_value_type, shm_get_stats, shm_check_owner, shm_check_authorized
ReaderStepTaken ==
    \/ \E r \in Readers : rpc'[r] # rpc[r]
    \/ \E p \in Procs :
           /\ spc[p] = "idle"
           /\ sl'[p].op \in {"check_owner", "check_authorized", "get_stats", "lookup_decrypted"}

\* C29: the reading calls never hold the writer mutex and leave every byte of
\* the segment unchanged: generation, both cursors, bucket heads, nodes,
\* payload, the header and the authorized-PID list.
C29_ReadersNeverWrite ==
    /\ [](writer_mutex \notin Readers)
    /\ [][ReaderStepTaken =>
             UNCHANGED <<generation, next_free_node_index, payload_alloc_off, writer_mutex,
                         buckets, nodes, payload, hdr, owner_uid, auth_pid_count,
                         auth_pids>>]_vars

\* a lookup ran from its first to its second generation sample while a writer
\* held the mutex in the middle of its insert
C29_Witness ==
    \E r \in Readers, w \in Writers :
        /\ rpc[r] = "done" /\ rl[r].sampled /\ rl[r].g1 % 2 = 1
        /\ writer_mutex = w /\ wpc[w] = "val_load"

\* C30 (as claimed): at most one process is between acquiring and releasing
\* the writer mutex inside an insert, and it is the holder of the mutex; the
\* write sections of two inserts never overlap.
C30_WriteSectionsExclusive ==
    \A w1, w2 \in Writers : (InWriteSection(w1) /\ InWriteSection(w2)) => w1 = w2


\* shm_close by p: the process keeps running and holds one handle less
ClosedBy(p) ==
    /\ os.cl[p].pos = "run"
    /\ os'.cl[p].pos = "run"
    /\ os'.handles[p] = os.handles[p] - 1

\* shm_create on the segment's name by a process that had opened it before and
\* closed every handle, between inserts
ReopenedBy(p) ==
    /\ os.cl[p].first = SegName
    /\ os.handles[p] = 0
    /\ os'.handles[p] = 1
    /\ \A w \in Writers : wpc[w] = "idle"

\* shm_destroy: nothing but the namespace changes
DestroyStep == \E name \in os.names : os' = [os EXCEPT !.names = @ \ {name}]

\* the shm_unlink of an enabled cleanup
CleanupUnlinkStep ==
    \E p \in Procs :
        /\ os.cl[p].pos = "unlink"
        /\ os.cl[p].enabled
        /\ os'.cl[p].unlinks = os.cl[p].unlinks + 1
        /\ os'.names = os.names \ {os.cl[p].name}

\* the name leaves the namespace only by shm_destroy or the cleanup's shm_unlink
NameRemovedOnlyByUnlink ==
    (SegName \in os.names /\ SegName \notin os'.names) => (DestroyStep \/ CleanupUnlinkStep)

\* shm_close leaves the namespace and every byte of the segment as they are
CloseKeepsSegment ==
    \A p \in Procs : ClosedBy(p) => (os'.names = os.names /\ UNCHANGED <<contents, hdr, st_size>>)

\* a process that closed its handles and opens the name again finds the contents
ReopenKeepsContents ==
    \A p \in Procs : ReopenedBy(p) => UNCHANGED contents

\* C27: the segment's name stays in the namespace until shm_destroy or the
\* exit cleanup of a process with auto-cleanup unlinks it; shm_close gives up
\* one handle and leaves the name and the segment as they are; a process that
\* has closed its handles and calls shm_create on the name again finds the
\* contents unchanged.
C27_NameOutlivesCloses ==
    [][NameRemovedOnlyByUnlink /\ CloseKeepsSegment /\ ReopenKeepsContents]_vars

\* C28: in a process with SHM_AUTO_CLEANUP=1 the handlers are installed at
\* most once, the remembered name is the name of the first shm_create (or
\* cleared by the cleanup), the cleanup calls shm_unlink at most once, and
\* exactly once when the process has left after a shm_create.
C28_CleanupOnce ==
    \A p \in Procs :
        os.env[p] =>
            /\ os.cl[p].installs <= 1
            /\ os.cl[p].name \in {os.cl[p].first, ""}
            /\ os.cl[p].unlinks <= 1
            /\ (os.cl[p].pos = "exited" /\ os.cl[p].first # "") => os.cl[p].unlinks = 1

\* the writer died after alloc_node_index gave it a slot and before its
\* bucket-head CAS
DiedBeforeCas(w) ==
    wpc[w] = "crashed" /\ wl[w].died_at \in {"write_node", "load_head", "cas"}

\* the writer died after its bucket-head CAS succeeded
DiedAfterCas(w) ==
    wpc[w] = "crashed" /\ wl[w].died_at \in {"gen2", "unlock"} /\ wl[w].err = SHM_OK
                       /\ wl[w].node_idx # EMPTY_INDEX

\* the lookup returned OK from node slot idx
ReturnedFrom(r, idx) == Done(r) /\ rl[r].err = SHM_OK /\ rl[r].idx = idx

C32_InsertReleasesAndReturns ==
    /\ [](\A w \in Writers : wpc[w] = "idle" => writer_mutex # w)
    /\ \A w \in Writers : InWriteSection(w) ~> (wpc[w] = "idle" /\ writer_mutex # w)
    /\ []<>(writer_mutex = "free")
    /\ <>[](budget.inserts = 0 /\ \A w \in Writers : wpc[w] = "idle")

\* the last insert call waited for the mutex, got it after the other insert
\* released it, ran out of space and is about to unlock
C32_Witness ==
    \E w \in Writers :
        /\ wpc[w] = "unlock" /\ wl[w].err = SHM_ERR_NO_SPACE
        /\ budget.inserts = 0
        /\ lastOK.count = MaxLiveInserts - 1

\* a bucket head, a node record, the node cursor or the payload cursor changes
SegmentWrite ==
    \/ buckets' # buckets
    \/ nodes' # nodes
    \/ next_free_node_index' # next_free_node_index
    \/ payload_alloc_off' # payload_alloc_off

\* the step is taken by writer w, which holds the mutex before and after it
StepOfHolder(w) ==
    /\ writer_mutex = w /\ writer_mutex' = w
    /\ wpc'[w] # wpc[w]
    /\ \A v \in Writers \ {w} : wpc'[v] = wpc[v]

Allocated == { i \in DOMAIN hist.allocs : hist.allocs[i].off # ALLOC_FAIL }

\* the bytes alloc_payload handed out in the first n calls that returned
RECURSIVE HandedOut(_)
HandedOut(n) ==
    IF n = 0 THEN 0
    ELSE HandedOut(n - 1) + (IF n \in Allocated THEN align_up(hist.allocs[n].len, 8) ELSE 0)

\* alloc_payload returns with (ok) or without an offset in this step
AllocReturns(w, ok) ==
    /\ wpc[w] \in {"key_load", "key_cas"}
    /\ wpc'[w] = "val_load"
    /\ (wl'[w].key_off # ALLOC_FAIL) = ok

Record(ns, mem, idx) ==
    <<ns[idx], ReadBytes(mem, ns[idx].key_off, ns[idx].key_len),
      ReadBytes(mem, ns[idx].val_off, ns[idx].val_len)>>

RECURSIVE EndsInEmpty(_, _)
EndsInEmpty(idx, fuel) ==
    IF idx = EMPTY_INDEX THEN TRUE
    ELSE IF fuel = 0 \/ idx \notin DOMAIN nodes THEN FALSE
    ELSE EndsInEmpty(nodes[idx].next_index, fuel - 1)

\* the node indices on the chain of bucket b
ChainOf(b) == ChainFrom(buckets[b], n_nodes + 1)

Returns(r) == rpc[r] \in {"walk", "found", "g2"} /\ rpc'[r] = "done"

\* no insert was between its two generation increments at any time from the
\* lookup's first load of generation on (executions without crashes)
NoConcurrentWriter(r) == rl[r].g1 % 2 = 0 /\ ~rl[r].seenBump /\ generation = rl[r].g1

\* what the lookup returns when e is the entry to be found
ReturnsEntry(r, e) ==
    IF rl[r].kind = "int_scalar" /\ e[2] # SHM_TYPE_INT_SCALAR
    THEN rl'[r].err = SHM_ERR_TYPE_MISMATCH
    ELSE /\ rl'[r].err = SHM_OK
         /\ rl[r].kind # "get_type" => rl'[r].out = e[3]
         /\ rl[r].kind # "lookup" => rl'[r].out_type = e[2]

\* the bucket-head CAS of w succeeds in this step
Publishes(w) == wpc[w] = "cas" /\ wpc'[w] = "gen2"

\* C37: every insert that succeeds puts a new node at the head of the chain
\* of its key and leaves the nodes already there on the chain behind it; a
\* lookup that ran with no concurrent writer returns the value and the type
\* of the latest committed insert of its key (TYPE_MISMATCH if the typed
\* lookup asks for another type than that entry has).
C37_LatestInsertShadows ==
    /\ [][\A w \in Writers :
             Publishes(w) =>
                 /\ wl[w].node_idx \notin Reachable
                 /\ buckets'[BucketOf(wl[w].key)] = wl[w].node_idx
                 /\ nodes'[wl[w].node_idx].next_index = buckets[BucketOf(wl[w].key)]
                 /\ Reachable' = Reachable \cup {wl[w].node_idx}]_vars
    /\ [][\A r \in Readers :
             (Returns(r) /\ NoConcurrentWriter(r)) =>
                 /\ \A e \in hist.latest : e[1] = rl[r].key => ReturnsEntry(r, e)
                 /\ (\A e \in hist.latest : e[1] # rl[r].key) =>
                        rl'[r].err = SHM_ERR_NOT_FOUND]_vars

\* the key was inserted with two types; a lookup that ran with no writer
\* returned the second entry while the first is still on the chain
C37_Witness ==
    \E r \in Readers :
        /\ Done(r) /\ rl[r].g1 % 2 = 0 /\ ~rl[r].seenBump /\ rl[r].err = SHM_OK
        /\ Cardinality({e \in hist.ok : e[1] = rl[r].key}) = 2
        /\ \E e \in hist.latest :
               /\ e[1] = rl[r].key
               /\ rl[r].kind = "lookup" /\ rl[r].out = e[3]
               /\ NodeAt(rl[r].idx).next_index # EMPTY_INDEX

\* an insert whose bucket-head CAS found another value than the head it loaded
\* (retries is reset to 0 when the node index is taken, before the CAS loop)
CasFailed(w) ==
    /\ wpc[w] \in {"load_head", "cas", "gen2", "rollback", "unlock"}
    /\ wl[w].retries > 0

\* C38: the bucket-head CAS of an insert succeeds on its first attempt: no
\* insert ever counts a failed attempt, so no insert reaches the exhausted
\* retry budget and its NO_SPACE return.
C38_CasFirstAttempt ==
    \A w \in Writers :
        /\ ~CasFailed(w)
        /\ wpc[w] = "cas" => buckets[BucketOf(wl[w].key)] = wl[w].old_head

\* a writer died between its two generation increments and the mutex has
\* been recovered since (pthread_mutex_lock returned EOWNERDEAD to a later
\* insert, which made the mutex consistent)
RecoveredAfterDeath ==
    /\ writer_mutex # "dead"
    /\ \E d \in Writers :
           /\ wpc[d] = "crashed"
           /\ wl[d].died_at \in {"key_load", "key_cas", "val_load", "val_cas", "copy_key",
                                 "copy_val", "alloc_node", "write_node", "load_head",
                                 "cas", "rollback", "gen2"}

\* C40: once a later writer has recovered the mutex of a writer that died
\* between its two increments, generation is even whenever no writer is in
\* its write section, and odd only while a writer is between its increments.
C40_ParityAfterRecovery ==
    RecoveredAfterDeath =>
        /\ (\A w \in Writers : ~InWriteSection(w)) => generation % 2 = 0
        /\ generation % 2 = 1 => \E w \in Writers : BetweenBumps(w)

\* process p stores into the segment inside the init block of shm_create
InitWrite(p) ==
    /\ os.cr[p].pc \in {"memset", "header", "buckets", "mutex"}
    /\ os'.cr[p].pc # os.cr[p].pc

\* C39: when several processes call shm_create for a name that does not exist
\* yet, no process stores into the segment from its init block after another
\* process has finished its init block or an insert has been committed.
C39_InitializedOnce ==
    [][\A p \in Writers :
          InitWrite(p) =>
              /\ \A q \in Writers \ {p} : ~os.cr[q].inited
              /\ hist.ok = {}]_vars
====
